---- MODULE Spec2Model ----
(***************************************************************************)
(* Verification model of the piyolog-dashboard import path:                *)
(*   - src/lib/piyolog-text-parser.ts  (line scanner and detail parsers)   *)
(*   - src/lib/csv-parser.ts           (row validation)                    *)
(*   - the application store           (importFile and friends)            *)
(*   - src/lib/analytics               (statistics, trends, correlations)  *)
(*                                                                         *)
(* Strings are sequences of characters.  A character is written as a short *)
(* ASCII token; every token stands for exactly one code point:             *)
(*   "BO" 母  "NYU" 乳  "SAKU" 搾  "kMI" ミ  "kRU" ル  "kKU" ク             *)
(*   "SUI" 睡 "MIN" 眠  "hO" お  "hSHI" し  "hTSU" っ  "hKO" こ             *)
(*   "hU" う  "hN" ん  "hCHI" ち  "TAI" 体  "JUU" 重  "SHIN" 身  "CHOU" 長   *)
(*   "ON" 温  "FURO1" 風  "FURO2" 呂  "BYOU" 病  "IN" 院                    *)
(*   "hKU" く "hSU" す  "hRI" り  "hSO" そ  "hNO" の  "TA" 他               *)
(*   "SAN" 散 "PO" 歩   "GOU" 合  "KEI" 計  "KON" 今  "NICHI" 日  "hHA" は  *)
(*   "kME" メ "kMO" モ  "HIDARI" 左  "MIGI" 右  "FUN" 分  "ARROW" ▶         *)
(*   "hKA" か "GETSU" 月  "NEN" 年  "LB" 【  "RB" 】  "hPI" ぴ  "hYO" よ     *)
(*   "kRO" ロ "kGU" グ  "MOKU" 木  "DEG" °  "ISP" U+3000  "TAB" U+0009      *)
(* ASCII characters stand for themselves ("0".."9", ":", "/", "(", ")",    *)
(* ".", "-", " ", "m", "l", "k", "g", "c", "C", "x", "y").                 *)
(*                                                                         *)
(* The numbers of the analytics functions are exact fractions, with NaN    *)
(* and the two infinities for what a division by zero gives; the rounding  *)
(* of IEEE doubles and the sign of zero are not modelled.  A Date there is  *)
(* its time value, kept as the day since 1970-01-01 (UTC) and the           *)
(* millisecond within that day.                                            *)
(***************************************************************************)
EXTENDS Integers, Sequences, FiniteSets, TLC

\* ------------------------------------------------------------------------
\* Optional values: undefined / null is the empty tuple, a present value v
\* is the one-element tuple <<v>>.
None == << >>

Some(v) == << v >>

IsSome(o) == o # << >>

\* ------------------------------------------------------------------------
\* Characters and the string primitives of the JavaScript runtime.

Digit == {"0", "1", "2", "3", "4", "5", "6", "7", "8", "9"}

DigitVal(c) ==
  CASE c = "0" -> 0 [] c = "1" -> 1 [] c = "2" -> 2 [] c = "3" -> 3
    [] c = "4" -> 4 [] c = "5" -> 5 [] c = "6" -> 6 [] c = "7" -> 7
    [] c = "8" -> 8 [] c = "9" -> 9

DigitChar(n) ==
  CASE n = 0 -> "0" [] n = 1 -> "1" [] n = 2 -> "2" [] n = 3 -> "3"
    [] n = 4 -> "4" [] n = 5 -> "5" [] n = 6 -> "6" [] n = 7 -> "7"
    [] n = 8 -> "8" [] n = 9 -> "9"

\* \s of a regular expression, and what String.prototype.trim strips
WhiteSpace == {" ", "TAB", "ISP"}

IsDigits(s) == \A i \in 1..Len(s) : s[i] \in Digit

\* s.substring(i-1) for a 1-based i
Drop(s, i) == SubSeq(s, i, Len(s))

\* s.substring(0, n)
Take(s, n) == SubSeq(s, 1, n)

\* the length of the longest prefix of s whose characters are all in set
RECURSIVE RunLen(_, _)
RunLen(s, set) ==
  IF s = << >> \/ Head(s) \notin set THEN 0 ELSE 1 + RunLen(Tail(s), set)

RECURSIVE TrimEnd(_)
TrimEnd(s) ==
  IF s = << >> \/ s[Len(s)] \notin WhiteSpace THEN s
  ELSE TrimEnd(SubSeq(s, 1, Len(s) - 1))

\* String.prototype.trim
Trim(s) == TrimEnd(Drop(s, RunLen(s, WhiteSpace) + 1))

\* s.startsWith(p) at 1-based position i
MatchesAt(s, i, p) ==
  /\ i >= 1
  /\ i + Len(p) - 1 <= Len(s)
  /\ SubSeq(s, i, i + Len(p) - 1) = p

\* String.prototype.includes
Includes(s, p) == \E i \in 1..(Len(s) + 1) : MatchesAt(s, i, p)

\* the least element of a non-empty set of integers
Min(S) == CHOOSE x \in S : \A y \in S : x <= y

\* parseInt of a string of decimal digits (a \d+ capture)
RECURSIVE ParseInt(_)
ParseInt(s) ==
  IF s = << >> THEN 0
  ELSE ParseInt(SubSeq(s, 1, Len(s) - 1)) * 10 + DigitVal(s[Len(s)])

\* the decimal rendering of a non-negative integer (template literal `${n}`)
RECURSIVE IntToStr(_)
IntToStr(n) ==
  IF n < 10 THEN << DigitChar(n) >>
  ELSE IntToStr(n \div 10) \o << DigitChar(n % 10) >>

\* ------------------------------------------------------------------------
\* Numbers.  A JavaScript number that arises from decimal text is the
\* rational m / 10^e, kept in lowest decimal form (e = 0 for an integer).

RECURSIVE Pow10(_)
Pow10(e) == IF e = 0 THEN 1 ELSE 10 * Pow10(e - 1)

RECURSIVE NormNum(_, _)
NormNum(m, e) ==
  IF e > 0 /\ m % 10 = 0 THEN NormNum(m \div 10, e - 1) ELSE [m |-> m, e |-> e]

Num(n) == [m |-> n, e |-> 0]

NumAdd(a, b) == NormNum(a.m * Pow10(b.e) + b.m * Pow10(a.e), a.e + b.e)

NumLess(a, b) == a.m * Pow10(b.e) < b.m * Pow10(a.e)

\* parseFloat of a \d+\.?\d* capture
ParseFloatCapture(s) ==
  LET a == RunLen(s, Digit)
      frac == IF a < Len(s) THEN Drop(s, a + 2) ELSE << >>
  IN NormNum(ParseInt(Take(s, a) \o frac), Len(frac))

\* ------------------------------------------------------------------------
\* Dates.  A Date is the record of its local-time fields
\* [year, month (1..12), day, hour, minute]; the local zone has a fixed
\* offset, seconds and milliseconds are always 0 in this parser.

IsLeap(y) == (y % 4 = 0 /\ y % 100 # 0) \/ y % 400 = 0

DaysInMonth(y, m) ==
  IF m = 2 THEN (IF IsLeap(y) THEN 29 ELSE 28)
  ELSE IF m \in {4, 6, 9, 11} THEN 30 ELSE 31

\* day d (any integer) of month m (1..12) of year y, as a calendar day
RECURSIVE NormDay(_, _, _)
NormDay(y, m, d) ==
  IF d < 1
    THEN LET py == IF m = 1 THEN y - 1 ELSE y
             pm == IF m = 1 THEN 12 ELSE m - 1
         IN NormDay(py, pm, d + DaysInMonth(py, pm))
  ELSE IF d > DaysInMonth(y, m)
    THEN NormDay(IF m = 12 THEN y + 1 ELSE y, IF m = 12 THEN 1 ELSE m + 1,
                 d - DaysInMonth(y, m))
  ELSE [year |-> y, month |-> m, day |-> d]

\* new Date(year, monthIndex, day): local midnight; a year 0..99 means
\* 1900 + year, an out-of-range month index or day carries over.
NewDate(year, monthIndex, day) ==
  LET y0 == IF year >= 0 /\ year <= 99 THEN 1900 + year ELSE year
      y  == y0 + (monthIndex \div 12)
      m  == (monthIndex % 12) + 1
      n  == NormDay(y, m, day)
  IN [year |-> n.year, month |-> n.month, day |-> n.day,
      hour |-> 0, minute |-> 0]

\* Date.prototype.setHours(hour, minute, 0, 0) on a copy of date
SetHours(date, hour, minute) ==
  LET total == hour * 60 + minute
      n     == NormDay(date.year, date.month, date.day + (total \div 1440))
  IN [year |-> n.year, month |-> n.month, day |-> n.day,
      hour |-> (total % 1440) \div 60, minute |-> total % 60]

\* ------------------------------------------------------------------------
\* The line recognizers (regular expressions of the parser).

HeaderPrefix == << "LB", "hPI", "hYO", "kRO", "kGU", "RB" >>

SEPARATOR == << "-", "-", "-", "-", "-", "-", "-", "-", "-", "-" >>

\* HEADER_PATTERN  /^【ぴよログ】(\d{4})年(\d{1,2})月$/
\* None, or Some of the two captures
MatchHeader(line) ==
  LET rest == Drop(line, 12)
      ml   == RunLen(rest, Digit)
  IN IF /\ MatchesAt(line, 1, HeaderPrefix)
        /\ Len(line) >= 11
        /\ IsDigits(SubSeq(line, 7, 10))
        /\ MatchesAt(line, 11, << "NEN" >>)
        /\ ml \in {1, 2}
        /\ Drop(rest, ml + 1) = << "GETSU" >>
     THEN Some([year |-> SubSeq(line, 7, 10), month |-> Take(rest, ml)])
     ELSE None

\* DATE_PATTERN  /^(\d{4})\/(\d{1,2})\/(\d{1,2})\([^)]+\)$/
\* None, or Some of the three captures
MatchDate(line) ==
  LET afterY == Drop(line, 6)
      ml     == RunLen(afterY, Digit)
      afterM == Drop(afterY, ml + 2)
      dl     == RunLen(afterM, Digit)
      paren  == Drop(afterM, dl + 1)
  IN IF /\ Len(line) >= 5
        /\ IsDigits(Take(line, 4))
        /\ line[5] = "/"
        /\ ml \in {1, 2}
        /\ MatchesAt(afterY, ml + 1, << "/" >>)
        /\ dl \in {1, 2}
        /\ Len(paren) >= 3
        /\ paren[1] = "("
        /\ paren[Len(paren)] = ")"
        /\ \A i \in 2..(Len(paren) - 1) : paren[i] # ")"
     THEN Some([year |-> Take(line, 4), month |-> Take(afterY, ml),
                day |-> Take(afterM, dl)])
     ELSE None

\* the tail  \((\d+)か月(\d+)日\)$  of CHILD_INFO_PATTERN, from position p
ChildInfoTailAt(line, p) ==
  LET a  == Drop(line, p + 1)
      d1 == RunLen(a, Digit)
      b  == Drop(a, d1 + 1)
      d2 == RunLen(Drop(b, 3), Digit)
  IN /\ line[p] = "("
     /\ d1 >= 1
     /\ MatchesAt(b, 1, << "hKA", "GETSU" >>)
     /\ d2 >= 1
     /\ Drop(b, 3 + d2) = << "NICHI", ")" >>

\* CHILD_INFO_PATTERN  /^(.+?)\s+\((\d+)か月(\d+)日\)$/
MatchChildInfo(line) ==
  \E p \in 3..Len(line) :
    /\ line[p - 1] \in WhiteSpace
    /\ ChildInfoTailAt(line, p)

\* EVENT_PATTERN  /^(\d{1,2}):(\d{2})\s+(.+)$/
\* None, or Some of the three captures
MatchEvent(line) ==
  LET hl   == RunLen(line, Digit)
      rest == Drop(line, hl + 4)
      ws   == RunLen(rest, WhiteSpace)
  IN IF /\ hl \in {1, 2}
        /\ MatchesAt(line, hl + 1, << ":" >>)
        /\ Len(line) >= hl + 3
        /\ IsDigits(SubSeq(line, hl + 2, hl + 3))
        /\ ws >= 1
        /\ (ws < Len(rest) \/ ws >= 2)
     THEN Some([hour |-> Take(line, hl),
                minute |-> SubSeq(line, hl + 2, hl + 3),
                text |-> IF ws < Len(rest) THEN Drop(rest, ws + 1)
                         ELSE Drop(rest, ws)])
     ELSE None

\* the summary markers 合計, 今日は, メモ
SummaryMarkers ==
  { << "GOU", "KEI" >>, << "KON", "NICHI", "hHA" >>, << "kME", "kMO" >> }

\* a variant that knows the aggregate marker 合計 only
IsSummaryLineTotalsOnly(line) == Includes(line, << "GOU", "KEI" >>)

IsSummaryLine(line) == \E mk \in SummaryMarkers : Includes(line, mk)

\* ------------------------------------------------------------------------
\* Activity classification and the detail parsers.

\* ACTIVITY_TYPE_MAP, in insertion order (the order Object.entries yields)
ACTIVITY_TYPE_MAP ==
  << [japanese |-> << "BO", "NYU" >>,                   type |-> "feeding"],
     [japanese |-> << "kMI", "kRU", "kKU" >>,           type |-> "feeding"],
     [japanese |-> << "SAKU", "BO", "NYU" >>,           type |-> "feeding"],
     [japanese |-> << "SUI", "MIN" >>,                  type |-> "sleeping"],
     [japanese |-> << "hO", "hSHI", "hTSU", "hKO" >>,   type |-> "diaper"],
     [japanese |-> << "hU", "hN", "hCHI" >>,            type |-> "diaper"],
     [japanese |-> << "TAI", "JUU" >>,                  type |-> "weight"],
     [japanese |-> << "SHIN", "CHOU" >>,                type |-> "height"],
     [japanese |-> << "TAI", "ON" >>,                   type |-> "temperature"],
     [japanese |-> << "hO", "FURO1", "FURO2" >>,        type |-> "bath"],
     [japanese |-> << "BYOU", "IN" >>,                  type |-> "hospital"],
     [japanese |-> << "hKU", "hSU", "hRI" >>,           type |-> "medicine"],
     [japanese |-> << "hSO", "hNO", "TA" >>,            type |-> "walk"],
     [japanese |-> << "SAN", "PO" >>,                   type |-> "walk"] >>

\* the ActivityType union of types/database
ActivityTypes ==
  {"feeding", "sleeping", "diaper", "temperature", "weight", "height",
   "bath", "walk", "medicine", "hospital"}

\* the positions of the table whose keyword the event type contains
MatchingEntries(eventType) ==
  {k \in 1..Len(ACTIVITY_TYPE_MAP) :
      Includes(eventType, ACTIVITY_TYPE_MAP[k].japanese)}

\* a variant without the break: the last matching entry wins
LastMatchType(eventType) ==
  IF MatchingEntries(eventType) = {} THEN None
  ELSE Some(ACTIVITY_TYPE_MAP[
         CHOOSE k \in MatchingEntries(eventType) :
           \A j \in MatchingEntries(eventType) : j <= k].type)

\* the for-loop with break over Object.entries(ACTIVITY_TYPE_MAP):
\* None (null), or Some of the first matching entry's type
FirstMatchType(eventType) ==
  IF MatchingEntries(eventType) = {} THEN None
  ELSE Some(ACTIVITY_TYPE_MAP[Min(MatchingEntries(eventType))].type)

\* the leftmost match of  <side>(\d+)分  in text at or after position from:
\* the set of start positions where it matches
SideStarts(text, side) ==
  {i \in 1..Len(text) :
     /\ text[i] = side
     /\ RunLen(Drop(text, i + 1), Digit) >= 1
     /\ MatchesAt(text, i + 1 + RunLen(Drop(text, i + 1), Digit), << "FUN" >>)}

\* the (\d+) capture of  <side>(\d+)分  matched at position i
SideDigits(text, i) == SubSeq(text, i + 1, i + RunLen(Drop(text, i + 1), Digit))

\* the position of 右 when  左(\d+)分\s*[▶/]\s*右(\d+)分  matches at i, else 0
LeftRightAt(text, i) ==
  LET afterL == i + 2 + RunLen(Drop(text, i + 1), Digit)
      sepPos == afterL + RunLen(Drop(text, afterL), WhiteSpace)
      rPos   == sepPos + 1 + RunLen(Drop(text, sepPos + 1), WhiteSpace)
  IN IF /\ i \in SideStarts(text, "HIDARI")
        /\ sepPos <= Len(text)
        /\ text[sepPos] \in {"ARROW", "/"}
        /\ rPos \in SideStarts(text, "MIGI")
     THEN rPos ELSE 0

\* a variant that forgets the right side of a pair in the duration
parseBreastFeedingLeftOfPair(text) ==
  LET lr == {i \in 1..Len(text) : LeftRightAt(text, i) # 0}
      ls == SideStarts(text, "HIDARI")
      rs == SideStarts(text, "MIGI")
  IN IF lr # {}
       THEN LET left  == ParseInt(SideDigits(text, Min(lr)))
                right == ParseInt(SideDigits(text, LeftRightAt(text, Min(lr))))
            IN [duration |-> Some(Num(left)),
                notes |-> Some(<< "HIDARI" >> \o IntToStr(left) \o << "FUN", " ", "MIGI" >>
                               \o IntToStr(right) \o << "FUN" >>)]
     ELSE IF ls # {}
       THEN LET left == ParseInt(SideDigits(text, Min(ls)))
            IN [duration |-> Some(Num(left)),
                notes |-> Some(<< "HIDARI" >> \o IntToStr(left) \o << "FUN" >>)]
     ELSE IF rs # {}
       THEN LET right == ParseInt(SideDigits(text, Min(rs)))
            IN [duration |-> Some(Num(right)),
                notes |-> Some(<< "MIGI" >> \o IntToStr(right) \o << "FUN" >>)]
     ELSE [duration |-> None, notes |-> Some(text)]

\* parseBreastFeeding
parseBreastFeeding(text) ==
  LET lr == {i \in 1..Len(text) : LeftRightAt(text, i) # 0}
      ls == SideStarts(text, "HIDARI")
      rs == SideStarts(text, "MIGI")
  IN IF lr # {}
       THEN LET left  == ParseInt(SideDigits(text, Min(lr)))
                right == ParseInt(SideDigits(text, LeftRightAt(text, Min(lr))))
            IN [duration |-> Some(Num(left + right)),
                notes |-> Some(<< "HIDARI" >> \o IntToStr(left) \o << "FUN", " ", "MIGI" >>
                               \o IntToStr(right) \o << "FUN" >>)]
     ELSE IF ls # {}
       THEN LET left == ParseInt(SideDigits(text, Min(ls)))
            IN [duration |-> Some(Num(left)),
                notes |-> Some(<< "HIDARI" >> \o IntToStr(left) \o << "FUN" >>)]
     ELSE IF rs # {}
       THEN LET right == ParseInt(SideDigits(text, Min(rs)))
            IN [duration |-> Some(Num(right)),
                notes |-> Some(<< "MIGI" >> \o IntToStr(right) \o << "FUN" >>)]
     ELSE [duration |-> None, notes |-> Some(text)]

\* the start positions where  (\d+)<unit>  matches
IntUnitStarts(text, unit) ==
  {i \in 1..Len(text) :
     /\ text[i] \in Digit
     /\ MatchesAt(text, i + RunLen(Drop(text, i), Digit), unit)}

\* parseMilk
parseMilk(text) ==
  LET st == IntUnitStarts(text, << "m", "l" >>)
  IN IF st # {}
       THEN [quantity |-> Some(Num(ParseInt(
                 SubSeq(text, Min(st), Min(st) + RunLen(Drop(text, Min(st)), Digit) - 1)))),
             notes |-> Some(text)]
     ELSE [quantity |-> None, notes |-> Some(text)]

\* the end position of the  \d+\.?\d*  matched greedily from position i
DecimalEnd(text, i) ==
  LET a == i + RunLen(Drop(text, i), Digit)
  IN IF MatchesAt(text, a, << "." >>)
       THEN a + RunLen(Drop(text, a + 1), Digit)
     ELSE a - 1

\* the start positions where  (\d+\.?\d*)<unit>  matches
DecimalUnitStarts(text, unit) ==
  {i \in 1..Len(text) :
     /\ text[i] \in Digit
     /\ MatchesAt(text, DecimalEnd(text, i) + 1, unit)}

\* parseWeight, parseHeight, parseTemperature: the same function up to
\* the unit that follows the number
parseDecimalUnit(text, unit) ==
  LET st == DecimalUnitStarts(text, unit)
  IN IF st # {}
       THEN [quantity |-> Some(ParseFloatCapture(
                 SubSeq(text, Min(st), DecimalEnd(text, Min(st))))),
             notes |-> Some(text)]
     ELSE [quantity |-> None, notes |-> Some(text)]

parseWeight(text) == parseDecimalUnit(text, << "k", "g" >>)

parseHeight(text) == parseDecimalUnit(text, << "c", "m" >>)

parseTemperature(text) == parseDecimalUnit(text, << "DEG", "C" >>)

\* ------------------------------------------------------------------------
\* parseEventLine

\* eventText.split(/\s{2,}/)
RECURSIVE SplitSpaces2(_)
SplitSpaces2(s) ==
  LET at == {i \in 1..(Len(s) - 1) : s[i] \in WhiteSpace /\ s[i + 1] \in WhiteSpace}
  IN IF at = {} THEN << s >>
     ELSE << Take(s, Min(at) - 1) >>
          \o SplitSpaces2(Drop(s, Min(at) + RunLen(Drop(s, Min(at)), WhiteSpace)))

\* parts.join(' ')
RECURSIVE JoinSpace(_)
JoinSpace(parts) ==
  IF parts = << >> THEN << >>
  ELSE IF Len(parts) = 1 THEN parts[1]
  ELSE parts[1] \o << " " >> \o JoinSpace(Tail(parts))

\* the parts array: split on a run of two or more blanks, else on the
\* first blank (when it is not the first character), else the whole text
EventParts(eventText) ==
  LET parts == SplitSpaces2(eventText)
      ws    == {i \in 1..Len(eventText) : eventText[i] \in WhiteSpace}
  IN IF Len(parts) # 1 THEN parts
     ELSE IF ws # {} /\ Min(ws) > 1
       THEN << Trim(Take(eventText, Min(ws) - 1)), Trim(Drop(eventText, Min(ws) + 1)) >>
     ELSE << Trim(eventText) >>

EventTypeOf(eventText) == Trim(EventParts(eventText)[1])

DetailsOf(eventText) == Trim(JoinSpace(Tail(EventParts(eventText))))

\* the if / else-if chain on eventType that parses the details and may
\* overwrite activityType
ParseDetails(eventType, details, activityType) ==
  IF Includes(eventType, << "BO", "NYU" >>)
    THEN LET parsed == parseBreastFeeding(details)
         IN [activityType |-> activityType, duration |-> parsed.duration,
             quantity |-> None, notes |-> parsed.notes]
  ELSE IF \/ Includes(eventType, << "kMI", "kRU", "kKU" >>)
          \/ Includes(eventType, << "SAKU", "BO", "NYU" >>)
    THEN LET parsed == parseMilk(details)
         IN [activityType |-> activityType, duration |-> None,
             quantity |-> parsed.quantity, notes |-> parsed.notes]
  ELSE IF Includes(eventType, << "TAI", "JUU" >>)
    THEN LET parsed == parseWeight(details)
         IN [activityType |-> "weight", duration |-> None,
             quantity |-> parsed.quantity, notes |-> parsed.notes]
  ELSE IF Includes(eventType, << "SHIN", "CHOU" >>)
    THEN LET parsed == parseHeight(details)
         IN [activityType |-> "height", duration |-> None,
             quantity |-> parsed.quantity, notes |-> parsed.notes]
  ELSE IF Includes(eventType, << "TAI", "ON" >>)
    THEN LET parsed == parseTemperature(details)
         IN [activityType |-> "temperature", duration |-> None,
             quantity |-> parsed.quantity, notes |-> parsed.notes]
  ELSE [activityType |-> activityType, duration |-> None, quantity |-> None,
        notes |-> Some(IF details # << >> THEN details ELSE eventType)]

UnknownActivityPrefix == << "Unknown activity type: " >>

\* parseEventLine after its early return: match holds the captures of
\* EVENT_PATTERN.  metadata.importedAt, a reading of the clock, is left out
\* of the record.
ParseMatchedEvent(line, match, currentDate, lineNumber) ==
  LET hour      == ParseInt(match.hour)
      minute    == ParseInt(match.minute)
      timestamp == SetHours(currentDate, hour, minute)
      eventType == EventTypeOf(match.text)
      details   == DetailsOf(match.text)
      first     == FirstMatchType(eventType)
  IN IF first = None
       THEN [record |-> None,
             error |-> Some([line |-> lineNumber,
                             message |-> UnknownActivityPrefix \o eventType,
                             rawText |-> line])]
     ELSE
       LET d == ParseDetails(eventType, details, first[1])
       IN [record |-> Some([timestamp |-> timestamp,
                            activityType |-> d.activityType,
                            duration |-> d.duration,
                            quantity |-> d.quantity,
                            notes |-> d.notes,
                            metadata |-> [importedFilename |-> "piyolog.txt"]]),
           error |-> None]

\* a variant that reports a line the event pattern rejects
parseEventLineReportingNonEvents(line, currentDate, lineNumber) ==
  IF MatchEvent(line) = None
    THEN [record |-> None,
          error |-> Some([line |-> lineNumber, message |-> << "Invalid line" >>,
                          rawText |-> line])]
  ELSE ParseMatchedEvent(line, MatchEvent(line)[1], currentDate, lineNumber)

\* parseEventLine(line, currentDate, lineNumber)
parseEventLine(line, currentDate, lineNumber) ==
  IF MatchEvent(line) = None THEN [record |-> None, error |-> None]
  ELSE ParseMatchedEvent(line, MatchEvent(line)[1], currentDate, lineNumber)

\* ------------------------------------------------------------------------
\* parsePiyologText: the body of the for-loop over the lines.
\* st is the loop's state [currentDate, currentYear, currentMonth, records,
\* errors, parsedEvents]; raw is lines[i] and lineNumber is i + 1.

InitialScan ==
  [currentDate |-> None, currentYear |-> None, currentMonth |-> None,
   records |-> << >>, errors |-> << >>, parsedEvents |-> 0]

\* a variant that stops pushing records once an error was recorded
ScanEventAllOrNothing(st, line, lineNumber, filename) ==
  LET r == parseEventLine(line, st.currentDate[1], lineNumber)
  IN [st EXCEPT
        !.records = IF r.record # None /\ st.errors = << >>
                      THEN Append(@, [r.record[1] EXCEPT
                                        !.metadata = [importedFilename |-> filename]])
                    ELSE @,
        !.parsedEvents = IF r.record # None THEN @ + 1 ELSE @,
        !.errors = IF r.error # None THEN Append(@, r.error[1]) ELSE @]

\* the branch taken when currentDate is set: parseEventLine and the pushes
ScanEvent(st, line, lineNumber, filename) ==
  LET r == parseEventLine(line, st.currentDate[1], lineNumber)
  IN [st EXCEPT
        !.records = IF r.record # None
                      THEN Append(@, [r.record[1] EXCEPT
                                        !.metadata = [importedFilename |-> filename]])
                    ELSE @,
        !.parsedEvents = IF r.record # None THEN @ + 1 ELSE @,
        !.errors = IF r.error # None THEN Append(@, r.error[1]) ELSE @]

ScanLine(st, raw, lineNumber, filename) ==
  LET line == Trim(raw)
  IN IF line = << >> \/ line = SEPARATOR THEN st
     ELSE IF MatchHeader(line) # None
       THEN [st EXCEPT !.currentYear = Some(ParseInt(MatchHeader(line)[1].year)),
                       !.currentMonth = Some(ParseInt(MatchHeader(line)[1].month))]
     ELSE IF MatchDate(line) # None
       THEN [st EXCEPT !.currentDate =
               Some(NewDate(ParseInt(MatchDate(line)[1].year),
                            ParseInt(MatchDate(line)[1].month) - 1,
                            ParseInt(MatchDate(line)[1].day)))]
     ELSE IF MatchChildInfo(line) THEN st
     ELSE IF IsSummaryLine(line) THEN st
     ELSE IF st.currentDate # None THEN ScanEvent(st, line, lineNumber, filename)
     ELSE st

\* parsePiyologText applied to a whole text, given as its lines
\* (textContent.split('\n')): the loop, then the returned object
RECURSIVE ScanAll(_, _, _)
ScanAll(text, n, filename) ==
  IF n = 0 THEN InitialScan
  ELSE ScanLine(ScanAll(text, n - 1, filename), text[n], n, filename)

\* the object parsePiyologText returns after the loop
ParseResultOf(st, totalLines) ==
  [records |-> st.records, errors |-> st.errors,
   totalLines |-> totalLines, parsedEvents |-> st.parsedEvents]

parsePiyologText(text, filename) ==
  ParseResultOf(ScanAll(text, Len(text), filename), Len(text))

\* ------------------------------------------------------------------------
\* State.
\*   lines   the lines of textContent the loop has consumed so far
\*   scan    the loop's state (currentDate, currentYear, currentMonth,
\*           records, errors, parsedEvents)
\*   result  None while the loop runs, then Some of the returned object
VARIABLES lines, scan, result

parserVars == << lines, scan, result >>

\* State of parseCSV (csv-parser.ts), from Papa.parse's callback on.
\*   csvPhase     "parsing" until Papa.parse calls back, "rows" inside the
\*                forEach over results.data, "resolved" afterwards
\*   csvData      the rows of results.data handled so far
\*   csvOut       the locals records, errors and totalRows
\*   csvResolved  None, then Some of the value the promise resolved with
VARIABLES csvPhase, csvData, csvOut, csvResolved

csvVars == << csvPhase, csvData, csvOut, csvResolved >>

\* State of the application store (useAppStore).
\*   records, filteredRecords, filters, isLoading, error, importProgress
\*                   the fields of AppState
\*   imports         the calls of importFile, in the order they were made:
\*                   the file of each and where the call stands ("reading"
\*                   while it awaits file.text(), "done" once it returned)
\*   now             the reading of Date.now(), in milliseconds since the
\*                   store was created
\*   timezoneOffset  minutes by which local time is ahead of UTC
VARIABLES records, filteredRecords, filters, isLoading, error, importProgress,
          imports, now, timezoneOffset

storeVars == << records, filteredRecords, filters, isLoading, error, importProgress,
                imports, now, timezoneOffset >>

\* State of a call of an analytics function (lib/analytics).
\*   call      the function called and the objects passed to it, as they
\*             are now: a callee that writes to an argument changes them
\*   returned  None until the call returns, then Some of the value
VARIABLES call, returned

analyticsVars == << call, returned >>

\* State of a sendWorkerMessage call (the code of hooks/useAnalytics).
\*   promise  the promise the call returns
\*   worker   the Worker: whether it was terminated, the events it has
\*            queued for the page, the events the page has handled and the
\*            number of onProgress calls
\*   timer    the timeout set by the call
\*   elapsed  the time in ms since the call
VARIABLES promise, worker, timer, elapsed

workerVars == << promise, worker, timer, elapsed >>

vars == << parserVars, csvVars, storeVars, analyticsVars, workerVars >>

\* ------------------------------------------------------------------------
\* csv-parser.ts

UpperCase ==
  << "A", "B", "C", "D", "E", "F", "G", "H", "I", "J", "K", "L", "M",
     "N", "O", "P", "Q", "R", "S", "T", "U", "V", "W", "X", "Y", "Z" >>

LowerCase ==
  << "a", "b", "c", "d", "e", "f", "g", "h", "i", "j", "k", "l", "m",
     "n", "o", "p", "q", "r", "s", "t", "u", "v", "w", "x", "y", "z" >>

\* String.prototype.toLowerCase
ToLowerCase(s) ==
  [i \in 1..Len(s) |->
     IF \E k \in 1..26 : UpperCase[k] = s[i]
       THEN LowerCase[CHOOSE k \in 1..26 : UpperCase[k] = s[i]]
     ELSE s[i]]

StrTimestamp == << "t", "i", "m", "e", "s", "t", "a", "m", "p" >>

StrActivityType == << "a", "c", "t", "i", "v", "i", "t", "y", "_", "t", "y", "p", "e" >>

StrDuration == << "d", "u", "r", "a", "t", "i", "o", "n", "_", "m", "i", "n", "u", "t", "e", "s" >>

StrQuantity == << "q", "u", "a", "n", "t", "i", "t", "y", "_", "m", "l" >>

StrNotes == << "n", "o", "t", "e", "s" >>

EXPECTED_HEADERS == << StrTimestamp, StrActivityType, StrDuration, StrQuantity, StrNotes >>

\* the CSV ACTIVITY_TYPE_MAP: every key maps to itself
CsvActivityKeys ==
  { << "f", "e", "e", "d", "i", "n", "g" >>, << "s", "l", "e", "e", "p", "i", "n", "g" >>,
    << "d", "i", "a", "p", "e", "r" >>, << "t", "e", "m", "p", "e", "r", "a", "t", "u", "r", "e" >>,
    << "w", "e", "i", "g", "h", "t" >>, << "h", "e", "i", "g", "h", "t" >>,
    << "b", "a", "t", "h" >>, << "w", "a", "l", "k" >>,
    << "m", "e", "d", "i", "c", "i", "n", "e" >>, << "h", "o", "s", "p", "i", "t", "a", "l" >> }

\* validateHeaders(headers).errors
validateHeaders(headers) ==
  LET normalizedHeaders == {ToLowerCase(Trim(headers[i])) : i \in 1..Len(headers)}
      missing == SelectSeq(EXPECTED_HEADERS, LAMBDA h : h \notin normalizedHeaders)
  IN [i \in 1..Len(missing) |->
        [row |-> 0, field |-> Some(missing[i]),
         message |-> << "Missing required header: " >> \o missing[i],
         rawData |-> None]]

\* the two-digit number at position i of s, or -1
TwoDigitsAt(s, i) ==
  IF i + 1 <= Len(s) /\ IsDigits(SubSeq(s, i, i + 1))
    THEN ParseInt(SubSeq(s, i, i + 1)) ELSE -1

\* new Date(value) for the format of the export, "YYYY-MM-DD HH:MM:SS" in
\* local time; any other text is an Invalid Date (None)
DateFromString(value) ==
  LET y  == ParseInt(Take(value, 4))
      mo == TwoDigitsAt(value, 6)
      d  == TwoDigitsAt(value, 9)
      h  == TwoDigitsAt(value, 12)
      mi == TwoDigitsAt(value, 15)
      se == TwoDigitsAt(value, 18)
  IN IF /\ Len(value) = 19
        /\ IsDigits(Take(value, 4))
        /\ value[5] = "-" /\ value[8] = "-" /\ value[11] = " "
        /\ value[14] = ":" /\ value[17] = ":"
        /\ mo \in 1..12
        /\ d >= 1 /\ d <= DaysInMonth(y, mo)
        /\ h \in 0..23 /\ mi \in 0..59 /\ se \in 0..59
     THEN Some([year |-> y, month |-> mo, day |-> d, hour |-> h, minute |-> mi,
                second |-> se])
     ELSE None

\* parseTimestamp
parseTimestamp(value) ==
  IF value = << >> \/ Trim(value) = << >> THEN None ELSE DateFromString(value)

\* parseActivityType
parseActivityType(value) ==
  IF value = << >> \/ Trim(value) = << >> THEN None
  ELSE IF ToLowerCase(Trim(value)) \in CsvActivityKeys
    THEN Some(ToLowerCase(Trim(value)))
  ELSE None

\* parseFloat: blanks, a sign, digits with an optional fraction; what
\* follows is ignored; None is NaN.  (Exponents and Infinity are not in
\* the inputs.)
ParseFloat(value) ==
  LET t    == Drop(value, RunLen(value, WhiteSpace) + 1)
      neg  == t # << >> /\ t[1] = "-"
      u    == IF t # << >> /\ t[1] \in {"-", "+"} THEN Tail(t) ELSE t
      a    == RunLen(u, Digit)
      b    == IF MatchesAt(u, a + 1, << "." >>) THEN RunLen(Drop(u, a + 2), Digit) ELSE 0
      mant == ParseInt(Take(u, a) \o SubSeq(u, a + 2, a + 1 + b))
  IN IF a + b = 0 THEN None
     ELSE Some(NormNum(IF neg THEN 0 - mant ELSE mant, b))

\* parseNumeric
parseNumeric(value) ==
  IF value = << >> \/ Trim(value) = << >> THEN None ELSE ParseFloat(value)

\* the digits of n, padded with zeros on the left to width w
RECURSIVE PadDigits(_, _)
PadDigits(n, w) ==
  IF w = 0 THEN << >> ELSE PadDigits(n \div 10, w - 1) \o << DigitChar(n % 10) >>

\* `${value}` of a number
NumToStr(x) ==
  LET abs == IF x.m < 0 THEN 0 - x.m ELSE x.m
  IN (IF x.m < 0 THEN << "-" >> ELSE << >>)
     \o IntToStr(abs \div Pow10(x.e))
     \o (IF x.e > 0 THEN << "." >> \o PadDigits(abs % Pow10(x.e), x.e) ELSE << >>)

\* validateNumericRange(value, field, min, max), both limits given
validateNumericRange(value, field, min, max) ==
  IF value = None THEN None
  ELSE IF NumLess(value[1], Num(min))
    THEN Some(field \o << " must be >= " >> \o IntToStr(min) \o << ", got " >>
              \o NumToStr(value[1]))
  ELSE IF NumLess(Num(max), value[1])
    THEN Some(field \o << " must be <= " >> \o IntToStr(max) \o << ", got " >>
              \o NumToStr(value[1]))
  ELSE None

MaxDurationMinutes == 1440

MaxQuantityMl == 10000

\* the error pushed for a field, as a sequence of zero or one errors
FieldError(failed, rowIndex, field, message, rawData) ==
  IF failed
    THEN << [row |-> rowIndex, field |-> Some(field), message |-> message,
             rawData |-> Some(rawData)] >>
  ELSE << >>

\* parseCSVRow(row, rowIndex, filename).  metadata.importedAt, a reading
\* of the clock, is left out of the record.
parseCSVRow(row, rowIndex, filename) ==
  LET timestamp     == parseTimestamp(row.timestamp)
      activityType  == parseActivityType(row.activity_type)
      duration      == parseNumeric(row.duration_minutes)
      quantity      == parseNumeric(row.quantity_ml)
      durationError == validateNumericRange(duration, StrDuration, 0, MaxDurationMinutes)
      quantityError == validateNumericRange(quantity, StrQuantity, 0, MaxQuantityMl)
      errs ==
        FieldError(timestamp = None, rowIndex, StrTimestamp,
                   << "Invalid or missing timestamp" >>, row.timestamp)
        \o FieldError(activityType = None, rowIndex, StrActivityType,
                      << "Invalid or missing activity type" >>, row.activity_type)
        \o FieldError(durationError # None, rowIndex, StrDuration,
                      IF durationError # None THEN durationError[1] ELSE << >>,
                      row.duration_minutes)
        \o FieldError(quantityError # None, rowIndex, StrQuantity,
                      IF quantityError # None THEN quantityError[1] ELSE << >>,
                      row.quantity_ml)
  IN IF timestamp = None \/ activityType = None
       THEN [record |-> None, errors |-> errs]
     ELSE [record |-> Some([timestamp |-> timestamp[1],
                            activityType |-> activityType[1],
                            duration |-> duration,
                            quantity |-> quantity,
                            notes |-> IF Trim(row.notes) # << >> THEN Some(Trim(row.notes))
                                      ELSE None,
                            metadata |-> [importedFilename |-> filename]]),
           errors |-> errs]

InitCsv ==
  /\ csvPhase = "parsing"
  /\ csvData = << >>
  /\ csvOut = [records |-> << >>, errors |-> << >>, totalRows |-> 0]
  /\ csvResolved = None

CsvFilename == "test.csv"

\* Papa.parse calls complete(results): the headers are validated; invalid
\* headers resolve the promise at once, valid ones start the forEach
CsvComplete(fields) ==
  /\ csvPhase = "parsing"
  /\ IF validateHeaders(fields) # << >>
       THEN /\ csvPhase' = "resolved"
            /\ csvOut' = [csvOut EXCEPT !.errors = @ \o validateHeaders(fields)]
            /\ csvResolved' = Some([records |-> << >>,
                                    errors |-> csvOut.errors \o validateHeaders(fields),
                                    totalRows |-> 0, successRows |-> 0])
     ELSE /\ csvPhase' = "rows"
          /\ UNCHANGED << csvOut, csvResolved >>
  /\ UNCHANGED << csvData, parserVars, storeVars, analyticsVars, workerVars >>

\* one iteration of results.data.forEach
CsvRow(row) ==
  /\ csvPhase = "rows"
  /\ LET r == parseCSVRow(row, Len(csvData) + 1, CsvFilename)
     IN csvOut' = [records |-> IF r.record # None THEN Append(csvOut.records, r.record[1])
                               ELSE csvOut.records,
                   errors |-> csvOut.errors \o r.errors,
                   totalRows |-> csvOut.totalRows + 1]
  /\ csvData' = Append(csvData, row)
  /\ UNCHANGED << csvPhase, csvResolved, parserVars, storeVars, analyticsVars, workerVars >>

\* the forEach is over: resolve({records, errors, totalRows, successRows})
CsvResolve ==
  /\ csvPhase = "rows"
  /\ csvPhase' = "resolved"
  /\ csvResolved' = Some([records |-> csvOut.records, errors |-> csvOut.errors,
                          totalRows |-> csvOut.totalRows,
                          successRows |-> Len(csvOut.records)])
  /\ UNCHANGED << csvData, csvOut, parserVars, storeVars, analyticsVars, workerVars >>

\* Papa.parse calls error(error)
CsvFail ==
  /\ csvPhase = "parsing"
  /\ csvPhase' = "resolved"
  /\ csvOut' = [csvOut EXCEPT !.errors =
                  Append(@, [row |-> 0, field |-> None,
                             message |-> << "CSV parsing failed: ", "error.message" >>,
                             rawData |-> None])]
  /\ csvResolved' = Some([records |-> << >>,
                          errors |-> Append(csvOut.errors,
                                       [row |-> 0, field |-> None,
                                        message |-> << "CSV parsing failed: ", "error.message" >>,
                                        rawData |-> None]),
                          totalRows |-> 0, successRows |-> 0])
  /\ UNCHANGED << csvData, parserVars, storeVars, analyticsVars, workerVars >>

\* ------------------------------------------------------------------------
\* The application store (part_005).

\* a property of an object; a missing property reads as undefined
Get(object, key) == IF key \in DOMAIN object THEN object[key] ELSE None

\* { ...a, ...b }
Spread(a, b) ==
  [key \in DOMAIN a \cup DOMAIN b |-> IF key \in DOMAIN b THEN b[key] ELSE a[key]]

\* {}
EmptyObject == [key \in {} |-> None]

\* days of the year y before its month m
RECURSIVE DaysBeforeMonth(_, _)
DaysBeforeMonth(y, m) ==
  IF m = 1 THEN 0 ELSE DaysBeforeMonth(y, m - 1) + DaysInMonth(y, m - 1)

\* leap years from year 1 to year y
LeapsUpTo(y) == (y \div 4) - (y \div 100) + (y \div 400)

\* days from 1970-01-01 to the given day
DaysFromEpoch(y, m, d) ==
  365 * (y - 1970) + LeapsUpTo(y - 1) - LeapsUpTo(1969) + DaysBeforeMonth(y, m) + (d - 1)

\* getTime() of a Date kept in local time, in minutes
GetTime(date) ==
  DaysFromEpoch(date.year, date.month, date.day) * 1440
    + date.hour * 60 + date.minute - timezoneOffset

\* getTime() of new Date(value) for a date-only string "YYYY-MM-DD", which
\* is midnight UTC, in minutes; None is an Invalid Date
DateOnlyGetTime(value) ==
  LET y  == ParseInt(Take(value, 4))
      mo == TwoDigitsAt(value, 6)
      d  == TwoDigitsAt(value, 9)
  IN IF /\ Len(value) = 10
        /\ IsDigits(Take(value, 4))
        /\ value[5] = "-" /\ value[8] = "-"
        /\ mo \in 1..12
        /\ d >= 1 /\ d <= DaysInMonth(y, mo)
     THEN Some(DaysFromEpoch(y, mo, d) * 1440)
     ELSE None

\* a filter string that is neither undefined nor empty
IsSet(value) == value # None /\ value[1] # << >>

\* the body of applyFilters: records restricted by filters
Filtered(recs, f) ==
  LET activityType == Get(f, "activityType")
      startDate    == Get(f, "startDate")
      endDate      == Get(f, "endDate")
      byType  == IF activityType # None
                   THEN SelectSeq(recs, LAMBDA r : r.activityType = activityType[1])
                 ELSE recs
      byStart == IF IsSet(startDate)
                   THEN SelectSeq(byType, LAMBDA r :
                          /\ DateOnlyGetTime(startDate[1]) # None
                          /\ GetTime(r.timestamp) >= DateOnlyGetTime(startDate[1])[1])
                 ELSE byType
  IN IF IsSet(endDate)
       THEN SelectSeq(byStart, LAMBDA r :
              /\ DateOnlyGetTime(endDate[1]) # None
              /\ GetTime(r.timestamp) <= DateOnlyGetTime(endDate[1])[1])
     ELSE byStart

\* importProgress of initialState and of the catch branch
IdleProgress ==
  [isImporting |-> FALSE, currentFile |-> None, parseErrors |-> << >>,
   totalRows |-> 0, successRows |-> 0]

\* errors.map(e => ({row: e.line, message: e.message, values: ...}))
ToParseErrors(errors) ==
  [i \in 1..Len(errors) |->
     [row |-> errors[i].line, message |-> errors[i].message,
      values |-> IF errors[i].rawText # << >> THEN << errors[i].rawText >> ELSE << >>]]

\* records.map((r, i) => ({...r, id: Date.now() + i})), clock[i] being the
\* reading of Date.now() for the i-th record (i counts from 1 here)
WithIds(recs, clock) ==
  [i \in 1..Len(recs) |->
     [timestamp |-> recs[i].timestamp, activityType |-> recs[i].activityType,
      duration |-> recs[i].duration, quantity |-> recs[i].quantity,
      notes |-> recs[i].notes, metadata |-> recs[i].metadata,
      id |-> clock[i] + (i - 1)]]

\* initialState
InitialState ==
  /\ records = << >>
  /\ filteredRecords = << >>
  /\ filters = EmptyObject
  /\ isLoading = FALSE
  /\ error = None
  /\ importProgress = IdleProgress
  /\ imports = << >>
  /\ now = 0

InitStore ==
  /\ InitialState
  /\ timezoneOffset \in {0, 540}

\* clearData
ClearData ==
  /\ records' = << >>
  /\ filteredRecords' = << >>
  /\ error' = None
  /\ UNCHANGED << filters, isLoading, importProgress, imports, now, timezoneOffset,
                  parserVars, csvVars, analyticsVars, workerVars >>

\* importFile(file) up to its await of file.text()
ImportStart(file) ==
  /\ importProgress' = [isImporting |-> TRUE, currentFile |-> Some(file.name),
                        parseErrors |-> << >>, totalRows |-> 0, successRows |-> 0]
  /\ error' = None
  /\ imports' = Append(imports, [file |-> file, pc |-> "reading"])
  /\ UNCHANGED << records, filteredRecords, filters, isLoading, now, timezoneOffset,
                  parserVars, csvVars, analyticsVars, workerVars >>

\* the readings of Date.now() a call may get for n records: none goes back
Readings(n, from, to) ==
  {clock \in [1..n -> from..to] : \A i \in 1..n : \A j \in i..n : clock[i] <= clock[j]}

\* importFile from the moment file.text() resolved to its return: the
\* text is parsed, and either no record was found (noValidRecords) or the
\* records get their ids and are appended (success)
ImportResume(k, clock) ==
  /\ k \in 1..Len(imports)
  /\ imports[k].pc = "reading"
  /\ \E parseResult \in {parsePiyologText(imports[k].file.text, imports[k].file.name)} :
     LET parseErrors == ToParseErrors(parseResult.errors)
         allRecords  == records \o WithIds(parseResult.records, clock)
     IN /\ DOMAIN clock = 1..Len(parseResult.records)
        /\ IF Len(parseResult.records) = 0
             THEN /\ error' = Some(<< "YuukouNaRecordGaMitsukarimasenDeshita (" >>
                                   \o IntToStr(parseResult.totalLines)
                                   \o << "GyouChuu0KenSeikou)" >>)
                  /\ importProgress' = [isImporting |-> FALSE, currentFile |-> None,
                                        parseErrors |-> parseErrors,
                                        totalRows |-> parseResult.totalLines,
                                        successRows |-> 0]
                  /\ UNCHANGED << records, filteredRecords, now >>
           ELSE /\ records' = allRecords
                /\ filteredRecords' = allRecords
                /\ importProgress' = [isImporting |-> FALSE, currentFile |-> None,
                                      parseErrors |-> parseErrors,
                                      totalRows |-> parseResult.totalLines,
                                      successRows |-> parseResult.parsedEvents]
                /\ error' = None
                /\ now' = clock[Len(clock)]
  /\ imports' = [imports EXCEPT ![k].pc = "done"]
  /\ UNCHANGED << filters, isLoading, timezoneOffset, parserVars, csvVars, analyticsVars, workerVars >>

\* importFile when file.text() rejects: the catch branch
ImportFail(k) ==
  /\ k \in 1..Len(imports)
  /\ imports[k].pc = "reading"
  /\ error' = Some(<< "FileNoYomikomiNiShippaiShimashita: ", "error.message" >>)
  /\ importProgress' = IdleProgress
  /\ imports' = [imports EXCEPT ![k].pc = "done"]
  /\ UNCHANGED << records, filteredRecords, filters, isLoading, now, timezoneOffset,
                  parserVars, csvVars, analyticsVars, workerVars >>

\* applyFilters
ApplyFilters ==
  /\ filteredRecords' = Filtered(records, filters)
  /\ UNCHANGED << records, filters, isLoading, error, importProgress, imports, now,
                  timezoneOffset, parserVars, csvVars, analyticsVars, workerVars >>

\* setFilters(newFilters), the call of applyFilters included
SetFilters(newFilters) ==
  /\ filters' = Spread(filters, newFilters)
  /\ filteredRecords' = Filtered(records, Spread(filters, newFilters))
  /\ UNCHANGED << records, isLoading, error, importProgress, imports, now,
                  timezoneOffset, parserVars, csvVars, analyticsVars, workerVars >>

\* resetFilters, the call of applyFilters included
ResetFilters ==
  /\ filters' = EmptyObject
  /\ filteredRecords' = Filtered(records, EmptyObject)
  /\ UNCHANGED << records, isLoading, error, importProgress, imports, now,
                  timezoneOffset, parserVars, csvVars, analyticsVars, workerVars >>

\* clearError
ClearError ==
  /\ error' = None
  /\ UNCHANGED << records, filteredRecords, filters, isLoading, importProgress,
                  imports, now, timezoneOffset, parserVars, csvVars, analyticsVars, workerVars >>

\* a millisecond passes
Tick(limit) ==
  /\ now < limit
  /\ now' = now + 1
  /\ UNCHANGED << records, filteredRecords, filters, isLoading, error, importProgress,
                  imports, timezoneOffset, parserVars, csvVars, analyticsVars, workerVars >>

\* ------------------------------------------------------------------------
\* Numbers and Dates of the analytics functions.

\* no sendWorkerMessage call was made
InitWorker ==
  /\ promise = [state |-> "none"]
  /\ worker = [terminated |-> FALSE, outbox |-> << >>, handled |-> << >>, progress |-> 0]
  /\ timer = [state |-> "none"]
  /\ elapsed = 0

NoCall ==
  /\ call = [fn |-> "none"]
  /\ returned = None

RECURSIVE GCD(_, _)
GCD(a, b) == IF b = 0 THEN a ELSE GCD(b, a % b)

AbsInt(n) == IF n < 0 THEN 0 - n ELSE n

SignInt(n) == IF n > 0 THEN 1 ELSE IF n < 0 THEN 0 - 1 ELSE 0

\* the finite number n/d, d > 0, in lowest terms
Frac(n, d) ==
  [k |-> "fin", n |-> n \div GCD(AbsInt(n), d), d |-> d \div GCD(AbsInt(n), d)]

\* the integer n as a number
FNum(n) == [k |-> "fin", n |-> n, d |-> 1]

NaN == [k |-> "nan", n |-> 0, d |-> 1]

\* Infinity (sign 1) and -Infinity (sign -1)
Infinity(sign) == [k |-> "inf", n |-> sign, d |-> 1]

\* Number.isFinite
IsFinite(x) == x.k = "fin"

\* a + b
FAdd(a, b) ==
  IF a.k = "nan" \/ b.k = "nan" THEN NaN
  ELSE IF a.k = "inf" THEN (IF b.k = "inf" /\ b.n # a.n THEN NaN ELSE a)
  ELSE IF b.k = "inf" THEN b
  ELSE Frac(a.n * (b.d \div GCD(a.d, b.d)) + b.n * (a.d \div GCD(a.d, b.d)),
            a.d * (b.d \div GCD(a.d, b.d)))

\* -a
FNeg(a) == [a EXCEPT !.n = 0 - a.n]

\* a - b
FSub(a, b) == FAdd(a, FNeg(b))

\* a * b
FMul(a, b) ==
  IF a.k = "nan" \/ b.k = "nan" THEN NaN
  ELSE IF a.k = "inf" \/ b.k = "inf"
    THEN (IF a.n = 0 \/ b.n = 0 THEN NaN ELSE Infinity(SignInt(a.n) * SignInt(b.n)))
  ELSE Frac((a.n \div GCD(AbsInt(a.n), b.d)) * (b.n \div GCD(AbsInt(b.n), a.d)),
            (a.d \div GCD(AbsInt(b.n), a.d)) * (b.d \div GCD(AbsInt(a.n), b.d)))

\* a / b
FDiv(a, b) ==
  IF a.k = "nan" \/ b.k = "nan" THEN NaN
  ELSE IF a.k = "inf"
    THEN (IF b.k = "inf" THEN NaN
          ELSE Infinity(a.n * (IF b.n < 0 THEN 0 - 1 ELSE 1)))
  ELSE IF b.k = "inf" THEN FNum(0)
  ELSE IF b.n = 0 THEN (IF a.n = 0 THEN NaN ELSE Infinity(SignInt(a.n)))
  ELSE Frac(a.n * b.d * SignInt(b.n), a.d * AbsInt(b.n))

\* a < b
FLess(a, b) ==
  IF a.k = "nan" \/ b.k = "nan" THEN FALSE
  ELSE IF a.k = "inf" THEN a.n < 0 /\ ~(b.k = "inf" /\ b.n < 0)
  ELSE IF b.k = "inf" THEN b.n > 0
  ELSE a.n * (b.d \div GCD(a.d, b.d)) < b.n * (a.d \div GCD(a.d, b.d))

\* a === b
FEq(a, b) == a.k # "nan" /\ a = b

\* a >= b
FGeq(a, b) == FLess(b, a) \/ FEq(a, b)

\* Math.abs
FAbs(a) == [a EXCEPT !.n = AbsInt(a.n)]

\* Math.floor and Math.ceil of a finite number, as integers
FloorInt(a) == a.n \div a.d

CeilInt(a) == 0 - ((0 - a.n) \div a.d)

\* the sum of the numbers of a sequence, from the left, starting at 0
RECURSIVE FSum(_)
FSum(xs) == IF xs = << >> THEN FNum(0) ELSE FAdd(FSum(SubSeq(xs, 1, Len(xs) - 1)), xs[Len(xs)])

\* 1000 * 60 * 60 * 24
MsPerDay == 86400000

\* the Date with the given time value
DateAt(day, ms) == [day |-> day, ms |-> ms]

\* a.getTime() - b.getTime(), in days
DaysBetween(a, b) == FAdd(FNum(a.day - b.day), Frac(a.ms - b.ms, MsPerDay))

\* a.getTime() < b.getTime()
TimeLess(a, b) == a.day < b.day \/ (a.day = b.day /\ a.ms < b.ms)

\* year, month and day of the day-th day since 1970-01-01
CivilFromDays(day) ==
  LET z   == day + 719468
      era == z \div 146097
      doe == z - era * 146097
      yoe == (doe - doe \div 1460 + doe \div 36524 - doe \div 146096) \div 365
      doy == doe - (365 * yoe + yoe \div 4 - yoe \div 100)
      mp  == (5 * doy + 2) \div 153
      m   == IF mp < 10 THEN mp + 3 ELSE mp - 9
  IN [year |-> yoe + era * 400 + (IF m <= 2 THEN 1 ELSE 0),
      month |-> m,
      day |-> doy - (153 * mp + 2) \div 5 + 1]

\* date.toISOString().split('T')[0]: the UTC day as "YYYY-MM-DD"
DateKey(date) ==
  LET c == CivilFromDays(date.day)
  IN PadDigits(c.year, 4) \o << "-" >> \o PadDigits(c.month, 2) \o << "-" >>
     \o PadDigits(c.day, 2)

\* new Date(dateKey) for a key "YYYY-MM-DD": midnight UTC of that day
DateFromKey(dateKey) ==
  DateAt(DaysFromEpoch(ParseInt(Take(dateKey, 4)), TwoDigitsAt(dateKey, 6),
                       TwoDigitsAt(dateKey, 9)), 0)

\* the code unit of a character of a date key
KeyCharCode(c) == IF c = "-" THEN 45 ELSE 48 + DigitVal(c)

\* a < b for two strings of the same length, as Array.prototype.sort
\* compares keys
RECURSIVE KeyLess(_, _)
KeyLess(a, b) ==
  IF a = << >> \/ b = << >> THEN FALSE
  ELSE IF a[1] # b[1] THEN KeyCharCode(a[1]) < KeyCharCode(b[1])
  ELSE KeyLess(Tail(a), Tail(b))

\* ------------------------------------------------------------------------
\* lib/analytics/trends.ts.  A record is
\*   [id, timestamp, activityType, duration, quantity]
\* with timestamp a Date and duration and quantity None (undefined) or Some
\* of a number.

MIN_DAYS_FOR_TREND == 7

\* the members of a set of indices, in increasing order
InOrder(S) ==
  [k \in 1..Cardinality(S) |-> CHOOSE i \in S : Cardinality({j \in S : j < i}) = k - 1]

\* the elements of s at the indices of a set, in index order
AtIndices(s, S) == [k \in 1..Cardinality(S) |-> s[InOrder(S)[k]]]

\* the date key of each record
DateKeys(recs) == [i \in 1..Len(recs) |-> DateKey(recs[i].timestamp)]

\* the Map of groupRecordsByDate, given the key of each record: its entries
\* in insertion order
GroupByKeys(recs, keys) ==
  LET firsts == InOrder({i \in 1..Len(recs) : \A j \in 1..(i - 1) : keys[j] # keys[i]})
  IN [k \in 1..Len(firsts) |->
       [key |-> keys[firsts[k]],
        records |-> AtIndices(recs, {i \in 1..Len(recs) : keys[i] = keys[firsts[k]]})]]

groupRecordsByDate(recs) == GroupByKeys(recs, DateKeys(recs))

\* records.filter((r) => r.activityType === activityType)
OfType(recs, activityType) ==
  SelectSeq(recs, LAMBDA r : r.activityType = activityType)

\* metric === 'duration' ? r.duration : r.quantity
MetricOf(r, metric) == IF metric = "duration" THEN r.duration ELSE r.quantity

\* the records that have a value of the metric
WithMetric(recs, metric) == SelectSeq(recs, LAMBDA r : IsSome(MetricOf(r, metric)))

\* the defined values of a metric in a list of records
MetricValues(recs, metric) ==
  [i \in 1..Len(WithMetric(recs, metric)) |-> MetricOf(WithMetric(recs, metric)[i], metric)[1]]

\* the points left in the order of the Map
PointsInMapOrder(points) == points

\* points.sort((a, b) => a.date.getTime() - b.date.getTime()): points of
\* one date keep their order
SortByDate(points) ==
  LET Rank(i) == 1 + Cardinality({j \in 1..Len(points) :
                      \/ TimeLess(points[j].date, points[i].date)
                      \/ (points[j].date = points[i].date /\ j < i)})
  IN [k \in 1..Len(points) |-> points[CHOOSE i \in 1..Len(points) : Rank(i) = k]]

\* the points of calculateDailyFrequency, in the order of the Map
FrequencyPoints(grouped) ==
  [k \in 1..Len(grouped) |->
     [date |-> DateFromKey(grouped[k].key), value |-> FNum(Len(grouped[k].records))]]

calculateDailyFrequency(recs, activityType) ==
  SortByDate(FrequencyPoints(groupRecordsByDate(OfType(recs, activityType))))

\* the point of one day of calculateDailyAggregation
AggregatePoint(g, metric, aggregation) ==
  [date |-> DateFromKey(g.key),
   value |-> IF aggregation = "sum"
               THEN FSum(MetricValues(g.records, metric))
               ELSE FDiv(FSum(MetricValues(g.records, metric)),
                         FNum(Len(MetricValues(g.records, metric))))]

\* the points of calculateDailyAggregation, in the order of the Map
AggregatePoints(grouped, metric, aggregation) ==
  [k \in 1..Len(grouped) |-> AggregatePoint(grouped[k], metric, aggregation)]

calculateDailyAggregation(recs, activityType, metric, aggregation) ==
  SortByDate(AggregatePoints(SelectSeq(groupRecordsByDate(OfType(recs, activityType)),
                                       LAMBDA g : MetricValues(g.records, metric) # << >>),
                             metric, aggregation))

\* Math.pow(v, 2)
Square(v) == FMul(v, v)

\* the fit of calculateLinearRegression, from x, y and the five sums
RegressionOf(x, y, n, sumX, sumY, sumXY, sumXX) ==
  LET slope == FDiv(FSub(FMul(n, sumXY), FMul(sumX, sumY)),
                    FSub(FMul(n, sumXX), FMul(sumX, sumX)))
      intercept == FDiv(FSub(sumY, FMul(slope, sumX)), n)
      meanY == FDiv(sumY, n)
      ssTotal == FSum([i \in 1..Len(y) |-> Square(FSub(y[i], meanY))])
      ssResidual ==
        FSum([i \in 1..Len(y) |-> Square(FSub(y[i], FAdd(FMul(slope, x[i]), intercept)))])
  IN [slope |-> slope,
      intercept |-> intercept,
      rSquared |-> IF FEq(ssTotal, FNum(0)) THEN FNum(0)
                   ELSE FSub(FNum(1), FDiv(ssResidual, ssTotal))]

\* the sums of calculateLinearRegression
RegressionSums(x, y) ==
  RegressionOf(x, y, FNum(Len(x)), FSum(x), FSum(y),
               FSum([i \in 1..Len(x) |-> FMul(x[i], y[i])]),
               FSum([i \in 1..Len(x) |-> Square(x[i])]))

calculateLinearRegression(data) ==
  IF Len(data) < 2 THEN None
  ELSE Some(RegressionSums([i \in 1..Len(data) |-> DaysBetween(data[i].date, data[1].date)],
                           [i \in 1..Len(data) |-> data[i].value]))

determineTrendDirection(slope) ==
  IF FLess(FAbs(slope), Frac(1, 100)) THEN "stable"
  ELSE IF FLess(FNum(0), slope) THEN "increasing" ELSE "decreasing"

determineTrendSignificance(magnitude, confidence) ==
  IF FGeq(confidence, Frac(7, 10)) /\ FGeq(FAbs(magnitude), Frac(1, 2)) THEN "high"
  ELSE IF FGeq(confidence, Frac(1, 2)) \/ FGeq(FAbs(magnitude), Frac(3, 10)) THEN "medium"
  ELSE "low"

\* hasEnoughDataForTrend asking for two points only
hasEnoughDataForTrendOfTwo(data) == Len(data) >= 2

hasEnoughDataForTrend(data) ==
  IF Len(data) < MIN_DAYS_FOR_TREND THEN FALSE
  ELSE FGeq(DaysBetween(data[Len(data)].date, data[1].date), FNum(MIN_DAYS_FOR_TREND - 1))

\* the result of the trend functions without a fit
FlatTrend(activityType, metric, data, hasEnoughData) ==
  [activityType |-> activityType,
   metric |-> metric,
   direction |-> "stable",
   magnitude |-> FNum(0),
   confidence |-> FNum(0),
   significance |-> "low",
   dataPoints |-> Len(data),
   hasEnoughData |-> hasEnoughData]

\* the result of the trend functions with a fit
FittedTrend(activityType, metric, data, regression) ==
  [activityType |-> activityType,
   metric |-> metric,
   direction |-> determineTrendDirection(regression.slope),
   magnitude |-> regression.slope,
   confidence |-> regression.rSquared,
   significance |-> determineTrendSignificance(regression.slope, regression.rSquared),
   dataPoints |-> Len(data),
   hasEnoughData |-> TRUE]

\* the body of both trend functions, from the daily series
TrendOfSeries(activityType, metric, data, regression) ==
  IF ~hasEnoughDataForTrend(data) \/ Len(data) < 2
    THEN FlatTrend(activityType, metric, data, FALSE)
  ELSE IF regression = None THEN FlatTrend(activityType, metric, data, TRUE)
  ELSE FittedTrend(activityType, metric, data, regression[1])

\* the series and its fit
TrendOfData(activityType, metric, data) ==
  TrendOfSeries(activityType, metric, data, calculateLinearRegression(data))

analyzeTrendForFrequency(recs, activityType) ==
  TrendOfData(activityType, "frequency", calculateDailyFrequency(recs, activityType))

analyzeTrendForMetric(recs, activityType, metric) ==
  TrendOfData(activityType, metric,
              calculateDailyAggregation(recs, activityType, metric, "average"))

\* HasMetric looking at the records of every activity type
HasMetricOfAnyType(recs, activityType, metric) ==
  \E i \in 1..Len(recs) : IsSome(MetricOf(recs[i], metric))

\* records.some((r) => r.activityType === activityType && r[metric] !== undefined)
HasMetric(recs, activityType, metric) ==
  \E i \in 1..Len(recs) :
    recs[i].activityType = activityType /\ IsSome(MetricOf(recs[i], metric))

analyzeAllTrends(recs, activityType) ==
  << analyzeTrendForFrequency(recs, activityType) >>
  \o (IF HasMetric(recs, activityType, "duration")
        THEN << analyzeTrendForMetric(recs, activityType, "duration") >> ELSE << >>)
  \o (IF HasMetric(recs, activityType, "quantity")
        THEN << analyzeTrendForMetric(recs, activityType, "quantity") >> ELSE << >>)

getSignificantTrends(trends) ==
  SelectSeq(trends, LAMBDA trend : trend.significance = "medium" \/ trend.significance = "high")

\* ------------------------------------------------------------------------
\* lib/analytics/correlations.ts.  A number that comes from a square root
\* (a standard deviation, a z-score, a correlation coefficient) is kept as
\* its sign and its square, both exact.

\* the sign of a number: 1, 0 or -1
SignOf(x) == IF x.k = "nan" THEN 0 ELSE SignInt(x.n)

\* a number as its sign and its square
Signed(x) == [sign |-> SignOf(x), square |-> FMul(x, x)]

\* Math.sqrt of a number that is not negative
Sqrt(x) == [sign |-> SignOf(x), square |-> x]

\* a / s, for a number a and a square root s
DivBySqrt(a, s) ==
  [sign |-> IF s.sign = 0 THEN SignOf(a) ELSE SignOf(a) * s.sign,
   square |-> FDiv(FMul(a, a), s.square)]

\* Math.abs of a signed number
AbsSigned(s) == [s EXCEPT !.sign = AbsInt(s.sign)]

\* s > c, for a signed number s and a number c that is not negative
SignedGreater(s, c) == s.sign > 0 /\ FLess(FMul(c, c), s.square)

\* s >= c, for a signed number s and a number c that is not negative
SignedGeq(s, c) == s.sign >= 0 /\ FGeq(s.square, FMul(c, c))

\* the coefficient of calculatePearsonCorrelation, from the sums
PearsonOf(n, sumX, sumY, sumXY, sumXX, sumYY) ==
  LET numerator == FSub(FMul(n, sumXY), FMul(sumX, sumY))
      denominator == Sqrt(FMul(FSub(FMul(n, sumXX), FMul(sumX, sumX)),
                               FSub(FMul(n, sumYY), FMul(sumY, sumY))))
  IN IF denominator.sign = 0 THEN None ELSE Some(DivBySqrt(numerator, denominator))

calculatePearsonCorrelation(x, y) ==
  IF Len(x) # Len(y) \/ Len(x) < 2 THEN None
  ELSE PearsonOf(FNum(Len(x)), FSum(x), FSum(y),
                 FSum([i \in 1..Len(x) |-> FMul(x[i], y[i])]),
                 FSum([i \in 1..Len(x) |-> FMul(x[i], x[i])]),
                 FSum([i \in 1..Len(y) |-> FMul(y[i], y[i])]))

interpretCorrelationStrength(coefficient) ==
  IF SignedGeq(AbsSigned(coefficient), Frac(4, 5)) THEN "very strong"
  ELSE IF SignedGeq(AbsSigned(coefficient), Frac(3, 5)) THEN "strong"
  ELSE IF SignedGeq(AbsSigned(coefficient), Frac(2, 5)) THEN "moderate"
  ELSE IF SignedGeq(AbsSigned(coefficient), Frac(1, 5)) THEN "weak"
  ELSE "very weak"

determineCorrelationDirection(coefficient) ==
  IF ~SignedGeq(AbsSigned(coefficient), Frac(1, 10)) THEN "none"
  ELSE IF coefficient.sign > 0 THEN "positive" ELSE "negative"

\* Array.from(grouped.keys()).sort(): the keys of the Map in string order
SortedKeys(grouped) ==
  LET Rank(i) == 1 + Cardinality({j \in 1..Len(grouped) : KeyLess(grouped[j].key, grouped[i].key)})
  IN [k \in 1..Len(grouped) |-> grouped[CHOOSE i \in 1..Len(grouped) : Rank(i) = k].key]

\* grouped.get(date)
RecordsOn(grouped, date) ==
  grouped[CHOOSE k \in 1..Len(grouped) : grouped[k].key = date].records

\* the daily frequency of a type over the dates
DailyCounts(grouped, dates, activityType) ==
  [k \in 1..Len(dates) |-> FNum(Len(OfType(RecordsOn(grouped, dates[k]), activityType)))]

\* the result of calculateActivityCorrelation, from the two vectors
CorrelationOf(activityType1, activityType2, freq1, coefficient) ==
  IF Len(freq1) < 7 THEN None
  ELSE IF coefficient = None THEN None
  ELSE Some([activityType1 |-> activityType1,
             activityType2 |-> activityType2,
             coefficient |-> coefficient[1],
             strength |-> interpretCorrelationStrength(coefficient[1]),
             direction |-> determineCorrelationDirection(coefficient[1]),
             sampleSize |-> Len(freq1)])

\* the two vectors of calculateActivityCorrelation
CorrelationOfVectors(activityType1, activityType2, freq1, freq2) ==
  CorrelationOf(activityType1, activityType2, freq1, calculatePearsonCorrelation(freq1, freq2))

\* the Map of calculateActivityCorrelation and its sorted keys
CorrelationOfGroups(grouped, dates, activityType1, activityType2) ==
  CorrelationOfVectors(activityType1, activityType2,
                       DailyCounts(grouped, dates, activityType1),
                       DailyCounts(grouped, dates, activityType2))

\* calculateActivityCorrelation once the records are grouped
CorrelationOfMap(grouped, activityType1, activityType2) ==
  CorrelationOfGroups(grouped, SortedKeys(grouped), activityType1, activityType2)

calculateActivityCorrelation(recs, activityType1, activityType2) ==
  CorrelationOfMap(groupRecordsByDate(recs), activityType1, activityType2)

\* TooFewValues asking for four values only
TooFewValuesOfFour(values) == Len(values) < 4

\* values.length < 5
TooFewValues(values) == Len(values) < 5

\* the values of a sequence of numbers in increasing order
SortNumbers(values) ==
  LET Rank(i) == 1 + Cardinality({j \in 1..Len(values) :
                      \/ FLess(values[j], values[i])
                      \/ (~FLess(values[i], values[j]) /\ j < i)})
  IN [k \in 1..Len(values) |-> values[CHOOSE i \in 1..Len(values) : Rank(i) = k]]

\* sort((a, b) => Math.abs(b.score) - Math.abs(a.score)): results of one
\* absolute score keep their order
SortByScore(outliers) ==
  LET Rank(i) == 1 + Cardinality({j \in 1..Len(outliers) :
                      \/ FLess(outliers[i].score.square, outliers[j].score.square)
                      \/ (~FLess(outliers[j].score.square, outliers[i].score.square) /\ j < i)})
  IN [k \in 1..Len(outliers) |-> outliers[CHOOSE i \in 1..Len(outliers) : Rank(i) = k]]

calculateZScore(value, mean, stdDev) ==
  IF stdDev.sign = 0 THEN Signed(FNum(0)) ELSE DivBySqrt(FSub(value, mean), stdDev)

\* the severity of a z-score above the threshold
ZScoreSeverity(absZScore) ==
  IF SignedGreater(absZScore, FNum(4)) THEN "extreme"
  ELSE IF SignedGreater(absZScore, Frac(7, 2)) THEN "moderate"
  ELSE "mild"

\* the result pushed for a record by detectOutliersZScore
ZScoreResult(record, metric, zScore) ==
  [record |-> record,
   metric |-> metric,
   value |-> MetricOf(record, metric)[1],
   method |-> "z-score",
   score |-> zScore,
   severity |-> ZScoreSeverity(AbsSigned(zScore))]

\* the outliers of detectOutliersZScore before the sort
ZScoreOutliers(flagged, metric, mean, stdDev) ==
  [i \in 1..Len(flagged) |->
     ZScoreResult(flagged[i], metric, calculateZScore(MetricOf(flagged[i], metric)[1], mean, stdDev))]

\* the records of detectOutliersZScore whose z-score is beyond the threshold
ZScoreFlagged(candidates, metric, mean, stdDev, threshold) ==
  SelectSeq(candidates,
            LAMBDA r : SignedGreater(AbsSigned(calculateZScore(MetricOf(r, metric)[1], mean, stdDev)),
                                     threshold))

\* detectOutliersZScore once mean and deviation are known
ZScoreWith(candidates, metric, mean, stdDev, threshold) ==
  IF stdDev.sign = 0 THEN << >>
  ELSE SortByScore(ZScoreOutliers(ZScoreFlagged(candidates, metric, mean, stdDev, threshold),
                                  metric, mean, stdDev))

\* the variance of detectOutliersZScore
VarianceOf(values, mean) ==
  FDiv(FSum([i \in 1..Len(values) |-> Square(FSub(values[i], mean))]), FNum(Len(values)))

\* detectOutliersZScore once the mean is known
ZScoreWithMean(candidates, values, metric, mean, threshold) ==
  ZScoreWith(candidates, metric, mean, Sqrt(VarianceOf(values, mean)), threshold)

\* detectOutliersZScore from the records of the type that have the metric
ZScoreOf(candidates, values, metric, threshold) ==
  IF TooFewValues(values) THEN << >>
  ELSE ZScoreWithMean(candidates, values, metric,
                      FDiv(FSum(values), FNum(Len(values))), threshold)

detectOutliersZScore(recs, activityType, metric, threshold) ==
  ZScoreOf(WithMetric(OfType(recs, activityType), metric),
           MetricValues(OfType(recs, activityType), metric), metric, threshold)

\* the IQR score of a value outside the bounds
IqrScore(value, lowerBound, upperBound, iqr) ==
  IF FLess(value, lowerBound) THEN FDiv(FSub(lowerBound, value), iqr)
  ELSE FDiv(FSub(value, upperBound), iqr)

\* the severity of an IQR score
IqrSeverity(iqrScore) ==
  IF FLess(FNum(3), iqrScore) THEN "extreme"
  ELSE IF FLess(FNum(2), iqrScore) THEN "moderate"
  ELSE "mild"

\* the result pushed for a record by detectOutliersIQR
IqrResult(record, metric, iqrScore) ==
  [record |-> record,
   metric |-> metric,
   value |-> MetricOf(record, metric)[1],
   method |-> "iqr",
   score |-> Signed(iqrScore),
   severity |-> IqrSeverity(iqrScore)]

\* detectOutliersIQR once the bounds are known
IqrWithBounds(candidates, metric, lowerBound, upperBound, iqr) ==
  LET flagged == SelectSeq(candidates,
                           LAMBDA r : \/ FLess(MetricOf(r, metric)[1], lowerBound)
                                      \/ FLess(upperBound, MetricOf(r, metric)[1]))
  IN SortByScore([i \in 1..Len(flagged) |->
                    IqrResult(flagged[i], metric,
                              IqrScore(MetricOf(flagged[i], metric)[1], lowerBound, upperBound, iqr))])

\* detectOutliersIQR once the quartiles are known
IqrWithQuartiles(candidates, metric, q1, q3, multiplier) ==
  IqrWithBounds(candidates, metric,
                FSub(q1, FMul(multiplier, FSub(q3, q1))),
                FAdd(q3, FMul(multiplier, FSub(q3, q1))),
                FSub(q3, q1))

\* detectOutliersIQR from the sorted values
IqrOfSorted(candidates, sorted, metric, multiplier) ==
  IqrWithQuartiles(candidates, metric,
                   sorted[FloorInt(FMul(FNum(Len(sorted)), Frac(1, 4))) + 1],
                   sorted[FloorInt(FMul(FNum(Len(sorted)), Frac(3, 4))) + 1],
                   multiplier)

\* detectOutliersIQR from the records of the type that have the metric
IqrOf(candidates, values, metric, multiplier) ==
  IF TooFewValues(values) THEN << >>
  ELSE IqrOfSorted(candidates, SortNumbers(values), metric, multiplier)

detectOutliersIQR(recs, activityType, metric, multiplier) ==
  IqrOf(WithMetric(OfType(recs, activityType), metric),
        MetricValues(OfType(recs, activityType), metric), metric, multiplier)

\* combined, of detectAllOutliers: the outliers whose record id no earlier
\* outlier has
FirstOfEachId(outliers) ==
  AtIndices(outliers, {i \in 1..Len(outliers) :
                         \A j \in 1..(i - 1) : outliers[j].record.id # outliers[i].record.id})

detectAllOutliers(recs, activityType, metric) ==
  SortByScore(FirstOfEachId(detectOutliersZScore(recs, activityType, metric, FNum(3))
                            \o detectOutliersIQR(recs, activityType, metric, Frac(3, 2))))

\* ------------------------------------------------------------------------
\* lib/analytics/statistics.ts.  A date argument is undefined, a string or
\* a Date: [type |-> "undefined"], [type |-> "string", value |-> characters]
\* or [type |-> "Date", value |-> Date].

\* the Date of a time value given as a day and milliseconds from its start
DateOfTime(day, ms) == DateAt(day + (ms \div MsPerDay), ms % MsPerDay)

\* date.setHours(hours, minutes, seconds, ms): the time of the local day
\* of the date
SetHoursOfDate(date, hours, minutes, seconds, ms) ==
  DateOfTime(DateOfTime(date.day, date.ms + timezoneOffset * 60000).day,
             ((hours * 60 + minutes) * 60 + seconds) * 1000 + ms - timezoneOffset * 60000)

\* typeof d === 'string' ? new Date(d) : d, for a date argument that is
\* not undefined; the strings are dates "YYYY-MM-DD"
AsDate(d) == IF d.type = "string" THEN DateFromKey(d.value) ELSE d.value

\* startDate ? ... : null, and the same for endDate
Truthy(d) == d.type = "Date" \/ (d.type = "string" /\ d.value # << >>)

\* end of filterByDateRange after end.setHours(23, 59, 59, 999)
EndOfRange(endDate) == SetHoursOfDate(AsDate(endDate), 23, 59, 59, 999)

\* the filter of filterByDateRange
InRange(record, startDate, endDate) ==
  /\ ~(Truthy(startDate) /\ TimeLess(record.timestamp, AsDate(startDate)))
  /\ ~(Truthy(endDate) /\ TimeLess(EndOfRange(endDate), record.timestamp))

\* the value filterByDateRange returns
filterByDateRange(recs, startDate, endDate) ==
  SelectSeq(recs, LAMBDA record : InRange(record, startDate, endDate))

\* the end date argument once filterByDateRange has returned: a Date passed
\* in is the object setHours was called on
EndDateAfterFilter(endDate) ==
  IF endDate.type = "Date" THEN [type |-> "Date", value |-> EndOfRange(endDate)] ELSE endDate

\* new Date(Math.min(...timestamps))
Earliest(recs) ==
  recs[CHOOSE i \in 1..Len(recs) :
         \A j \in 1..Len(recs) : ~TimeLess(recs[j].timestamp, recs[i].timestamp)].timestamp

\* new Date(Math.max(...timestamps))
Latest(recs) ==
  recs[CHOOSE i \in 1..Len(recs) :
         \A j \in 1..Len(recs) : ~TimeLess(recs[i].timestamp, recs[j].timestamp)].timestamp

\* AtLeastOne with 0 for the lower bound
AtLeastZero(n) == IF n < 0 THEN 0 ELSE n

\* Math.max(1, n)
AtLeastOne(n) == IF n < 1 THEN 1 ELSE n

\* durationDays of calculateOverallStatistics
DurationDays(earliest, latest) == AtLeastOne(CeilInt(DaysBetween(latest, earliest)))

\* activityBreakdown: the number of records of each type there is
ActivityBreakdown(recs) ==
  [t \in {recs[i].activityType : i \in 1..Len(recs)} |-> Len(OfType(recs, t))]

\* the result of calculateOverallStatistics for records that are not empty
OverallOf(recs, earliest, latest, durationDays) ==
  [totalRecords |-> Len(recs),
   dateRange |-> [earliest |-> Some(earliest), latest |-> Some(latest),
                  durationDays |-> durationDays],
   activityTypeCount |-> Cardinality(DOMAIN ActivityBreakdown(recs)),
   recordsPerDay |-> FDiv(FNum(Len(recs)), FNum(durationDays)),
   activityBreakdown |-> ActivityBreakdown(recs)]

\* calculateOverallStatistics from the earliest and the latest timestamp
OverallOfRange(recs, earliest, latest) ==
  OverallOf(recs, earliest, latest, DurationDays(earliest, latest))

calculateOverallStatistics(recs) ==
  IF Len(recs) = 0
    THEN [totalRecords |-> 0,
          dateRange |-> [earliest |-> None, latest |-> None, durationDays |-> 0],
          activityTypeCount |-> 0,
          recordsPerDay |-> FNum(0),
          activityBreakdown |-> EmptyObject]
    ELSE OverallOfRange(recs, Earliest(recs), Latest(recs))

\* getUniqueActivityTypes: the keys of typeCounts, in the order in which the
\* Map received them (the order of first appearance among the records)
TypesInMapOrder(recs) ==
  LET firsts == SelectSeq([i \in 1..Len(recs) |-> i],
                          LAMBDA i : \A j \in 1..(i - 1) : recs[j].activityType # recs[i].activityType)
  IN [k \in 1..Len(firsts) |-> recs[firsts[k]].activityType]

\* typeCounts.get(type) after the forEach
TypeCount(recs, type) == Cardinality({i \in 1..Len(recs) : recs[i].activityType = type})

\* Array.from(typeCounts.entries())
TypeEntries(recs) ==
  LET types == TypesInMapOrder(recs)
  IN [k \in 1..Len(types) |-> << types[k], TypeCount(recs, types[k]) >>]

\* the entries of the Map left as the Map holds them
EntriesUnsorted(entries) == entries

\* sort((a, b) => b[1] - a[1]): entries of one count keep their order
SortByCount(entries) ==
  LET Rank(i) == 1 + Cardinality({j \in 1..Len(entries) :
                      \/ entries[j][2] > entries[i][2]
                      \/ (entries[j][2] = entries[i][2] /\ j < i)})
  IN [k \in 1..Len(entries) |-> entries[CHOOSE i \in 1..Len(entries) : Rank(i) = k]]

\* map(([type]) => type)
TypesOfEntries(entries) == [k \in 1..Len(entries) |-> entries[k][1]]

getUniqueActivityTypes(recs) == TypesOfEntries(SortByCount(TypeEntries(recs)))

calculateMean(values) ==
  IF Len(values) = 0 THEN FNum(0) ELSE FDiv(FSum(values), FNum(Len(values)))

\* calculateMedian once the copy is sorted
MedianOfSorted(sorted) ==
  IF Len(sorted) % 2 = 0
    THEN FDiv(FAdd(sorted[Len(sorted) \div 2], sorted[(Len(sorted) \div 2) + 1]), FNum(2))
    ELSE sorted[(Len(sorted) \div 2) + 1]

calculateMedian(values) ==
  IF Len(values) = 0 THEN FNum(0) ELSE MedianOfSorted(SortNumbers(values))

calculateStdDev(values, mean) ==
  IF Len(values) = 0 THEN Signed(FNum(0))
  ELSE Sqrt(calculateMean([i \in 1..Len(values) |-> Square(FSub(values[i], mean))]))

\* the element nearest below the index, without interpolation
PercentileAtLower(sorted, index) == sorted[FloorInt(index) + 1]

\* calculatePercentile once the copy is sorted and the index is known;
\* sorted[lower] of the code is sorted[lower + 1] of the sequence
PercentileAt(sorted, index) ==
  IF FloorInt(index) = CeilInt(index) THEN sorted[FloorInt(index) + 1]
  ELSE FAdd(FMul(sorted[FloorInt(index) + 1], FSub(FNum(1), FSub(index, FNum(FloorInt(index))))),
            FMul(sorted[CeilInt(index) + 1], FSub(index, FNum(FloorInt(index)))))

\* calculatePercentile; "throw" stands for the Error thrown for a percentile
\* outside 0..100
calculatePercentile(values, percentile) ==
  IF Len(values) = 0 THEN FNum(0)
  ELSE IF percentile < 0 \/ percentile > 100 THEN "throw"
  ELSE PercentileAt(SortNumbers(values), FMul(Frac(percentile, 100), FNum(Len(values) - 1)))

\* Math.min(...values) and Math.max(...values) of a non-empty array
MinOf(values) == SortNumbers(values)[1]

MaxOf(values) == SortNumbers(values)[Len(values)]

\* calculateSummary once the mean is known
SummaryOf(values, mean) ==
  [count |-> Len(values),
   sum |-> FSum(values),
   mean |-> mean,
   median |-> calculateMedian(values),
   min |-> MinOf(values),
   max |-> MaxOf(values),
   stdDev |-> calculateStdDev(values, mean),
   q1 |-> calculatePercentile(values, 25),
   q3 |-> calculatePercentile(values, 75)]

\* calculateSummary; None stands for null
calculateSummary(values) ==
  IF Len(values) = 0 THEN None ELSE Some(SummaryOf(values, calculateMean(values)))


\* ------------------------------------------------------------------------
\* lib/piyolog-text-parser.ts: formatPiyologParseErrors.  An error is
\* [line, message, rawText] as the parser reports it; a rawText of << >> is
\* a raw text that is undefined or empty.

\* the number of errors that are written out
ErrorLimit == 10

\* Array.prototype.join
RECURSIVE Join(_, _)
Join(parts, separator) ==
  IF parts = << >> THEN << >>
  ELSE IF Len(parts) = 1 THEN parts[1]
  ELSE parts[1] \o separator \o Join(Tail(parts), separator)

\* the message of one error: `Line ${error.line}: ${error.message}`, then
\* `\n  "${error.rawText}"` for a truthy rawText
ErrorLine(err) ==
  << "Line " >> \o IntToStr(err.line) \o << ": " >> \o err.message
    \o (IF err.rawText # << >>
          THEN << "\n", " ", " ", "\"" >> \o err.rawText \o << "\"" >>
          ELSE << >>)

\* the whole list, without a limit
SliceAll(errors) == errors

\* errors.slice(0, 10)
SliceOfErrors(errors) ==
  SubSeq(errors, 1, IF Len(errors) < ErrorLimit THEN Len(errors) ELSE ErrorLimit)

\* errors.slice(0, 10).map(...)
ErrorLines(errors) ==
  [i \in 1..Len(SliceOfErrors(errors)) |-> ErrorLine(SliceOfErrors(errors)[i])]

\* `\n\n...and ${errors.length - 10} more errors`
MoreErrors(errors) ==
  << "\n", "\n", "...and " >> \o IntToStr(Len(errors) - ErrorLimit) \o << " more errors" >>

formatPiyologParseErrors(errors) ==
  IF Len(errors) = 0 THEN << >>
  ELSE Join(ErrorLines(errors), << "\n", "\n" >>)
         \o (IF Len(errors) > ErrorLimit THEN MoreErrors(errors) ELSE << >>)


\* ------------------------------------------------------------------------
\* sendWorkerMessage.  An event of the Worker is a response posted with
\* postMessage, [type, ...], or the error event [type |-> "errorevent",
\* message] that is dispatched to worker.onerror.

\* timeout: number = 30000
DefaultTimeout == 30000

\* the response types that resolve the promise
ResultTypes == {"statistics_result", "trends_result", "correlations_result", "all_result"}

\* the state of a promise that was resolved or rejected: a settled promise
\* ignores every later resolve and reject
Settle(p, state, value) ==
  IF p.state = "pending" THEN [state |-> state, value |-> value] ELSE p

\* the timer is left as it is
KeepTimeout(t) == t

\* clearTimeout(timeoutId): a timer that has not fired will not fire
ClearTimeout(t) == IF t.state = "armed" THEN [t EXCEPT !.state = "cleared"] ELSE t

\* worker.terminate()
Terminate(w) == [w EXCEPT !.terminated = TRUE]

\* what the handlers resolve or reject the promise with
OutcomeOf(event) ==
  IF event.type = "error" THEN [state |-> "rejected", value |-> event.error]
  ELSE IF event.type \in ResultTypes THEN [state |-> "fulfilled", value |-> event]
  ELSE IF event.type = "errorevent"
    THEN [state |-> "rejected", value |-> << "Worker error: ", event.message >>]
  ELSE [state |-> "rejected", value |-> "Unknown response type"]

\* the call: the Promise executor sets the timeout and the handlers and
\* posts the message
SendWorkerMessage(timeout) ==
  /\ promise.state = "none"
  /\ promise' = [state |-> "pending"]
  /\ timer' = [state |-> "armed",
               deadline |-> elapsed + (IF timeout = None THEN DefaultTimeout ELSE timeout[1])]
  /\ UNCHANGED << worker, elapsed, parserVars, csvVars, storeVars, analyticsVars >>

\* the Worker posts a response or fails with an error event
WorkerPosts(event, limit) ==
  /\ promise.state # "none"
  /\ ~worker.terminated
  /\ Len(worker.outbox) + Len(worker.handled) < limit
  /\ worker' = [worker EXCEPT !.outbox = Append(@, event)]
  /\ UNCHANGED << promise, timer, elapsed, parserVars, csvVars, storeVars, analyticsVars >>

\* worker.onmessage and worker.onerror: the page handles the oldest event
\* the Worker has queued
HandleEvent ==
  /\ worker.outbox # << >>
  /\ LET event == Head(worker.outbox)
         taken == [worker EXCEPT !.outbox = Tail(@), !.handled = Append(@, event)]
     IN IF event.type = "progress"
          THEN /\ worker' = [taken EXCEPT !.progress = @ + 1]
               /\ UNCHANGED << promise, timer >>
          ELSE /\ timer' = ClearTimeout(timer)
               /\ worker' = Terminate(taken)
               /\ promise' = Settle(promise, OutcomeOf(event).state, OutcomeOf(event).value)
  /\ UNCHANGED << elapsed, parserVars, csvVars, storeVars, analyticsVars >>

\* the callback of setTimeout
TimeoutFires ==
  /\ timer.state = "armed"
  /\ elapsed >= timer.deadline
  /\ timer' = [timer EXCEPT !.state = "fired"]
  /\ worker' = Terminate(worker)
  /\ promise' = Settle(promise, "rejected", "Analytics computation timed out")
  /\ UNCHANGED << elapsed, parserVars, csvVars, storeVars, analyticsVars >>

\* time passes after the call
TimePasses(step, limit) ==
  /\ promise.state # "none"
  /\ elapsed < limit
  /\ elapsed' = elapsed + step
  /\ UNCHANGED << promise, worker, timer, parserVars, csvVars, storeVars, analyticsVars >>


\* ------------------------------------------------------------------------
\* fetchWithRetry.  The outcome of one fetch call is a Response
\* [kind |-> "response", status, json], json telling whether the body parses
\* as JSON, or an exception [kind |-> "error", name].  A string of the
\* configuration is the sequence of its character codes.

\* config.timeout ?? 10000
DefaultFetchTimeout == 10000

\* btoa throws an InvalidCharacterError for a character code above 255
BtoaThrows(text) == \E i \in 1..Len(text) : text[i] > 255

\* createFetchOptions throws what createAuthHeader throws
CreateFetchOptionsThrows(config) == BtoaThrows(config.username) \/ BtoaThrows(config.password)

\* response.ok
ResponseOk(response) == response.status >= 200 /\ response.status <= 299

\* parseAPIError: the body is read inside a try of its own
parseAPIError(response) ==
  IF response.status = 401
    THEN [type |-> "auth", status |-> response.status,
          message |-> "Authentication failed. Please check your credentials."]
    ELSE [type |-> IF response.status >= 500 THEN "server" ELSE "client",
          status |-> response.status,
          message |-> IF response.json THEN "errorResponse.message" ELSE "response.statusText"]

\* a returned APIResult after fetch was called fetched times
Resolved(value, fetched) == [outcome |-> "resolved", value |-> value, fetched |-> fetched]

\* the return of the catch block once the retries are used up
CaughtResult(name, timeout) ==
  IF name = "AbortError"
    THEN [success |-> FALSE,
          error |-> [type |-> "timeout",
                     message |-> << "Request timed out after ", timeout, "ms" >>]]
    ELSE [success |-> FALSE, error |-> [type |-> "network", message |-> name]]

\* the name of what the try block throws in an attempt, None if it throws
\* nothing: fetch rejects, or response.json() rejects for an ok response
\* whose body is not JSON
ThrownIn(fetched) ==
  IF fetched.kind = "error" THEN Some(fetched.name)
  ELSE IF ResponseOk(fetched) /\ ~fetched.json THEN Some("SyntaxError")
  ELSE None

\* response.status >= 400 && response.status < 500 && response.status !== 429
NonRetryable(response) ==
  response.status >= 400 /\ response.status < 500 /\ response.status # 429

\* the loop from the given attempt on; responses[attempt + 1] is what the
\* fetch call of the attempt gives
RECURSIVE FetchLoop(_, _, _, _)
FetchLoop(responses, retries, timeout, attempt) ==
  IF attempt > retries
    THEN Resolved([success |-> FALSE,
                   error |-> [type |-> "unknown", message |-> "Unknown error occurred"]],
                  attempt)
  ELSE IF ThrownIn(responses[attempt + 1]) # None
    THEN IF attempt < retries
           THEN FetchLoop(responses, retries, timeout, attempt + 1)
           ELSE Resolved(CaughtResult(ThrownIn(responses[attempt + 1])[1], timeout), attempt + 1)
  ELSE IF ResponseOk(responses[attempt + 1])
    THEN Resolved([success |-> TRUE, data |-> "data"], attempt + 1)
  ELSE IF NonRetryable(responses[attempt + 1])
    THEN Resolved([success |-> FALSE, error |-> parseAPIError(responses[attempt + 1])],
                  attempt + 1)
  ELSE IF attempt < retries
    THEN FetchLoop(responses, retries, timeout, attempt + 1)
  ELSE Resolved([success |-> FALSE, error |-> parseAPIError(responses[attempt + 1])],
                attempt + 1)

\* fetchWithRetry: what the returned promise settles with, and the number
\* of fetch calls made
fetchWithRetry(config, responses, retries) ==
  IF CreateFetchOptionsThrows(config)
    THEN [outcome |-> "thrown", value |-> "InvalidCharacterError", fetched |-> 0]
    ELSE FetchLoop(responses, retries,
                   IF config.timeout = None THEN DefaultFetchTimeout ELSE config.timeout[1], 0)


\* ------------------------------------------------------------------------
\* lib/analytics/statistics.ts: calculateAllStatistics, and
\* workers/analytics.worker.ts.  A computation that can throw gives
\* [threw, value]: threw is Some of the message of the Error, or None and
\* value is what it returns.  An array passed for a date is
\* [type |-> "array", value].

Threw(message) == [threw |-> Some(message), value |-> << >>]

Gave(value) == [threw |-> None, value |-> value]

\* record.timestamp.getHours(): the hour of the local time
GetHours(date) == ((date.ms \div 60000 + timezoneOffset + 1440) % 1440) \div 60

getTimeOfDay(hour) ==
  IF hour >= 6 /\ hour < 12 THEN "morning"
  ELSE IF hour >= 12 /\ hour < 18 THEN "afternoon"
  ELSE IF hour >= 18 /\ hour < 22 THEN "evening"
  ELSE "night"

calculateTimeDistribution(recs) ==
  [byHour |-> [h \in 0..23 |->
                 Cardinality({i \in 1..Len(recs) : GetHours(recs[i].timestamp) = h})],
   byTimeOfDay |-> [t \in {"morning", "afternoon", "evening", "night"} |->
                 Cardinality({i \in 1..Len(recs) :
                                getTimeOfDay(GetHours(recs[i].timestamp)) = t})]]

calculateActivityStatistics(recs, activityType) ==
  [activityType |-> activityType,
   frequency |-> Len(OfType(recs, activityType)),
   duration |-> calculateSummary(MetricValues(OfType(recs, activityType), "duration")),
   quantity |-> calculateSummary(MetricValues(OfType(recs, activityType), "quantity")),
   timeDistribution |-> calculateTimeDistribution(OfType(recs, activityType))]

\* what filterByDateRange throws, None if it throws nothing: an end that is
\* neither a string nor a Date has no setHours, and a start that is neither
\* has no getTime when the filter callback reaches the first record
FilterThrows(recs, startDate, endDate) ==
  IF endDate.type = "array" THEN Some("end.setHours is not a function")
  ELSE IF startDate.type = "array" /\ recs # << >>
    THEN Some("start.getTime is not a function")
  ELSE None

\* calculateAllStatistics once the records are filtered
StatisticsOfFiltered(filtered, activityTypes) ==
  [k \in 1..Len(activityTypes) |-> calculateActivityStatistics(filtered, activityTypes[k])]

\* an array passes no record of an empty list to the filter callback
FilteredOf(recs, startDate, endDate) ==
  IF recs = << >> THEN << >> ELSE filterByDateRange(recs, startDate, endDate)

calculateAllStatistics(recs, startDate, endDate) ==
  IF FilterThrows(recs, startDate, endDate) # None
    THEN Threw(FilterThrows(recs, startDate, endDate)[1])
    ELSE Gave(StatisticsOfFiltered(FilteredOf(recs, startDate, endDate),
                                   getUniqueActivityTypes(FilteredOf(recs, startDate, endDate))))

\* sort((a, b) => Math.abs(b.coefficient) - Math.abs(a.coefficient))
SortByCoefficient(correlations) ==
  LET Rank(i) == 1 + Cardinality({j \in 1..Len(correlations) :
                      \/ FLess(correlations[i].coefficient.square, correlations[j].coefficient.square)
                      \/ (~FLess(correlations[j].coefficient.square, correlations[i].coefficient.square)
                            /\ j < i)})
  IN [k \in 1..Len(correlations) |-> correlations[CHOOSE i \in 1..Len(correlations) : Rank(i) = k]]

\* the correlations of the pairs (i, j), i < j, from the given pair on, in
\* the order of the two loops, the null ones left out
RECURSIVE PairCorrelations(_, _, _, _)
PairCorrelations(recs, activityTypes, i, j) ==
  IF i > Len(activityTypes) THEN << >>
  ELSE IF j > Len(activityTypes) THEN PairCorrelations(recs, activityTypes, i + 1, i + 2)
  ELSE calculateActivityCorrelation(recs, activityTypes[i], activityTypes[j])
         \o PairCorrelations(recs, activityTypes, i, j + 1)

calculateAllCorrelations(recs, activityTypes) ==
  SortByCoefficient(PairCorrelations(recs, activityTypes, 1, 2))

\* allTrends of computeAll and computeTrends
RECURSIVE AllTrends(_, _)
AllTrends(recs, activityTypes) ==
  IF activityTypes = << >> THEN << >>
  ELSE analyzeAllTrends(recs, Head(activityTypes)) \o AllTrends(recs, Tail(activityTypes))

\* the entries pushed to allOutliers for one activity type
OutlierEntries(activityType, outliers) ==
  [k \in 1..Len(outliers) |-> [activityType |-> activityType, outlier |-> outliers[k]]]

\* allOutliers of computeAll
RECURSIVE AllOutliers(_, _)
AllOutliers(recs, activityTypes) ==
  IF activityTypes = << >> THEN << >>
  ELSE OutlierEntries(Head(activityTypes), detectAllOutliers(recs, Head(activityTypes), "duration"))
         \o OutlierEntries(Head(activityTypes), detectAllOutliers(recs, Head(activityTypes), "quantity"))
         \o AllOutliers(recs, Tail(activityTypes))

\* postProgress
ProgressMessage(message, percent) == [type |-> "progress", message |-> message, percent |-> percent]

\* the catch block of self.onmessage
ErrorMessage(message) == [type |-> "error", error |-> message]

\* what computeAll posts once calculateAllStatistics is through
ComputeAllWith(recs, activityTypes, statistics) ==
  IF statistics.threw # None THEN << ErrorMessage(statistics.threw[1]) >>
  ELSE << ProgressMessage("trends", Frac(40, 1)),
          ProgressMessage("correlations", Frac(70, 1)),
          ProgressMessage("outliers", Frac(90, 1)),
          ProgressMessage("done", Frac(100, 1)),
          [type |-> "all_result",
           statistics |-> statistics.value,
           trends |-> AllTrends(recs, activityTypes),
           correlations |-> calculateAllCorrelations(recs, activityTypes),
           outliers |-> AllOutliers(recs, activityTypes)] >>

\* the activity types go where calculateAllStatistics has its start date
computeAll(recs, activityTypes) ==
  << ProgressMessage("statistics", Frac(10, 1)) >>
    \o ComputeAllWith(recs, activityTypes,
                      calculateAllStatistics(recs, [type |-> "array", value |-> activityTypes],
                                             [type |-> "undefined"]))

\* what computeStatistics posts once calculateAllStatistics is through
ComputeStatisticsWith(statistics) ==
  IF statistics.threw # None THEN << ErrorMessage(statistics.threw[1]) >>
  ELSE << ProgressMessage("done", Frac(100, 1)),
          [type |-> "statistics_result", result |-> statistics.value] >>

computeStatistics(recs, activityTypes) ==
  << ProgressMessage("statistics", Frac(50, 1)) >>
    \o ComputeStatisticsWith(calculateAllStatistics(recs, [type |-> "array", value |-> activityTypes],
                                                   [type |-> "undefined"]))

\* the progress messages of the forEach of computeTrends
TrendProgress(activityTypes) ==
  [k \in 1..Len(activityTypes) |->
     ProgressMessage(<< "trends", k, Len(activityTypes) >>,
                     FAdd(FNum(50), Frac(50 * k, Len(activityTypes))))]

computeTrends(recs, activityTypes) ==
  << ProgressMessage("trends", Frac(50, 1)) >>
    \o TrendProgress(activityTypes)
    \o << [type |-> "trends_result", result |-> AllTrends(recs, activityTypes)] >>

computeCorrelations(recs, activityTypes) ==
  << ProgressMessage("correlations", Frac(50, 1)),
     ProgressMessage("done", Frac(100, 1)),
     [type |-> "correlations_result", result |-> calculateAllCorrelations(recs, activityTypes)] >>

\* the messages self.onmessage posts for a request
PostedFor(data) ==
  IF data.type = "compute_all" THEN computeAll(data.records, data.activityTypes)
  ELSE IF data.type = "compute_statistics" THEN computeStatistics(data.records, data.activityTypes)
  ELSE IF data.type = "compute_trends" THEN computeTrends(data.records, data.activityTypes)
  ELSE IF data.type = "compute_correlations"
    THEN computeCorrelations(data.records, data.activityTypes)
  ELSE << ErrorMessage(<< "Unknown message type: ", data.type >>) >>


\* ------------------------------------------------------------------------
\* The scanner specification.

InitParser ==
  /\ lines = << >>
  /\ scan = InitialScan
  /\ result = None

\* the filename argument of the calls modelled below
TestFilename == "test.txt"

\* one iteration of the for-loop on the next line of the text
ReadLineFrom(inputs) ==
  \E raw \in inputs :
    /\ result = None
    /\ lines' = Append(lines, raw)
    /\ scan' = ScanLine(scan, raw, Len(lines) + 1, TestFilename)
    /\ UNCHANGED << result, csvVars, storeVars, analyticsVars, workerVars >>

\* a variant that reports the number of lines as parsedEvents
ReturnCountingLines ==
  /\ result = None
  /\ Len(lines) >= 1
  /\ result' = Some([records |-> scan.records, errors |-> scan.errors,
                     totalLines |-> Len(lines), parsedEvents |-> Len(lines)])
  /\ UNCHANGED << lines, scan, csvVars, storeVars, analyticsVars, workerVars >>

\* the loop ends (a text has at least one line) and the object is returned
Return ==
  /\ result = None
  /\ Len(lines) >= 1
  /\ result' = Some([records |-> scan.records, errors |-> scan.errors,
                     totalLines |-> Len(lines), parsedEvents |-> scan.parsedEvents])
  /\ UNCHANGED << lines, scan, csvVars, storeVars, analyticsVars, workerVars >>

\* ------------------------------------------------------------------------
\* Input texts of the scanner specification.

Str1125 == << "1", "1", ":", "2", "5" >>

KwWeight == << "TAI", "JUU" >>

KwPee == << "hO", "hSHI", "hTSU", "hKO" >>

KwPoo == << "hU", "hN", "hCHI" >>

KwOther == << "hSO", "hNO", "TA" >>

KwWalk == << "SAN", "PO" >>

KwMemo == << "kME", "kMO" >>

\* 2025/4/10(木)
LineDate10 == << "2", "0", "2", "5", "/", "4", "/", "1", "0", "(", "MOKU", ")" >>

\* 2025/12/31(木)
LineDateDec31 ==
  << "2", "0", "2", "5", "/", "1", "2", "/", "3", "1", "(", "MOKU", ")" >>

\* 2025/4/11(メモ)
LineDateMemo ==
  << "2", "0", "2", "5", "/", "4", "/", "1", "1", "(", "kME", "kMO", ")" >>

\* 【ぴよログ】2025年4月
LineHeader == HeaderPrefix \o << "2", "0", "2", "5", "NEN", "4", "GETSU" >>

\* xy (0か月0日)
LineChild == << "x", "y", " ", "(", "0", "hKA", "GETSU", "0", "NICHI", ")" >>

\* ミルク合計: 200ml
LineMilkTotal ==
  << "kMI", "kRU", "kKU", "GOU", "KEI", ":", " ", "2", "0", "0", "m", "l" >>

\* 今日はx
LineDiary == << "KON", "NICHI", "hHA", "x" >>

\* 11:25   体重 2.64kg
LineWeight == Str1125 \o << " ", " ", " " >> \o KwWeight \o << " ", "2", ".", "6", "4", "k", "g" >>

\* 9:05 おしっこ
LinePee == << "9", ":", "0", "5", " " >> \o KwPee

\* 25:70 うんち
LineLate == << "2", "5", ":", "7", "0", " " >> \o KwPoo

\* 11:25 xy x
LineUnknown == Str1125 \o << " ", "x", "y", " ", "x" >>

\* "  12:00 yx" with leading blanks
LineUnknownIndented == << " ", " ", "1", "2", ":", "0", "0", " ", "y", "x" >>

\* 12:00 その他 メモx
LineOtherMemo == << "1", "2", ":", "0", "0", " " >> \o KwOther \o << " " >> \o KwMemo \o << "x" >>

\* 12:30 xy メモ
LineUnknownMemo == << "1", "2", ":", "3", "0", " ", "x", "y", " " >> \o KwMemo

\* 13:00 散歩 (1か月2日)
LineWalkChild ==
  << "1", "3", ":", "0", "0", " " >> \o KwWalk
    \o << " ", "(", "1", "hKA", "GETSU", "2", "NICHI", ")" >>

\* xy
LineGarbage == << "x", "y" >>

\* 11:25体重  (no blank after the time)
LineNoBlank == Str1125 \o KwWeight

LineInputs ==
  { << >>, SEPARATOR, LineHeader, LineDate10, LineDateDec31, LineDateMemo,
    LineChild, LineMilkTotal, LineDiary, LineWeight, LinePee, LineLate,
    LineUnknown, LineUnknownIndented, LineOtherMemo, LineUnknownMemo,
    LineWalkChild, LineGarbage, LineNoBlank }

\* the longest text the scanner specification reads
MaxLines == 3

ReadLine ==
  /\ Len(lines) < MaxLines
  /\ ReadLineFrom(LineInputs)

\* the parser and CSV specifications do not read the timezone
Init == InitParser /\ InitCsv /\ InitWorker /\ InitStore /\ NoCall /\ timezoneOffset = 0

Next == ReadLine \/ Return

Spec == Init /\ [][Next]_vars

\* ------------------------------------------------------------------------
\* Inputs of the CSV specification.

HeaderInputs ==
  { EXPECTED_HEADERS,
    << StrTimestamp, StrActivityType, StrDuration, StrQuantity >>,
    << StrNotes, StrTimestamp, StrActivityType, StrDuration, StrQuantity,
       << "e", "x", "t", "r", "a" >> >> }

TimestampInputs == { << >>, << "2", "0", "2", "5", "-", "0", "1", "-", "1", "5", " ", "0", "9", ":", "3", "0", ":", "0", "0" >> }

ActivityInputs == { << "f", "e", "e", "d", "i", "n", "g" >>, << " ", "S", "l", "e", "e", "p", "i", "n", "g", " " >>, << "u", "n", "k", "n", "o", "w", "n" >> }

DurationInputs == { << >>, << "2", "0" >>, << "-", "1", "0" >>, << "1", "5", "0", "0" >>, << "a", "b", "c" >> }

QuantityInputs == { << >>, << "1", "5", "0" >>, << "-", "5", "0" >>, << "1", "2", ".", "5" >> }

NotesInputs == { << >>, << " ", "o", "k", " " >> }

RowInputs ==
  [timestamp : TimestampInputs, activity_type : ActivityInputs,
   duration_minutes : DurationInputs, quantity_ml : QuantityInputs,
   notes : NotesInputs]

\* the number of rows of results.data
MaxRows == 1

ReadHeaders == \E fields \in HeaderInputs : CsvComplete(fields)

ReadRow ==
  /\ Len(csvData) < MaxRows
  /\ \E row \in RowInputs : CsvRow(row)

NextCsv == ReadHeaders \/ ReadRow \/ CsvResolve \/ CsvFail

SpecCsv == Init /\ [][NextCsv]_vars

\* ------------------------------------------------------------------------
\* Inputs of the store specification.

\* a file of one event, one of two events and one without events
FileInputs ==
  { [name |-> "a.txt", text |-> << LineDate10, LinePee >>],
    [name |-> "b.txt", text |-> << LineDate10, LinePee, LineWeight >>],
    [name |-> "c.txt", text |-> << LineGarbage >>] }

StrApril10 == << "2", "0", "2", "5", "-", "0", "4", "-", "1", "0" >>

StrApril11 == << "2", "0", "2", "5", "-", "0", "4", "-", "1", "1" >>

\* the arguments of setFilters
FilterInputs ==
  { [activityType |-> Some("diaper")],
    [activityType |-> None],
    [startDate |-> Some(StrApril10), endDate |-> Some(StrApril10)],
    [startDate |-> Some(StrApril11), endDate |-> None],
    [startDate |-> None, endDate |-> None] }

\* the number of calls of importFile
MaxImports == 2

\* the last reading of the clock
MaxNow == 2

StartImport ==
  /\ Len(imports) < MaxImports
  /\ \E file \in FileInputs : ImportStart(file)

ResumeImport ==
  \E k \in 1..Len(imports) :
    \E n \in 0..2 : \E clock \in Readings(n, now, MaxNow) : ImportResume(k, clock)

FailImport == \E k \in 1..Len(imports) : ImportFail(k)

ChangeFilters == \E newFilters \in FilterInputs : SetFilters(newFilters)

ClockTick == Tick(MaxNow)

NextStore ==
  \/ StartImport
  \/ ResumeImport
  \/ FailImport
  \/ ClearData
  \/ ApplyFilters
  \/ ChangeFilters
  \/ ResetFilters
  \/ ClearError
  \/ ClockTick

InitAnyZone == InitParser /\ InitCsv /\ InitWorker /\ InitStore /\ NoCall

SpecStore == InitAnyZone /\ [][NextStore]_vars

\* ------------------------------------------------------------------------
\* Inputs of the trend specification.

FirstDay == DaysFromEpoch(2025, 1, 15)

\* a record of the analytics functions
Record(id, day, ms, activityType, duration, quantity) ==
  [id |-> id, timestamp |-> DateAt(day, ms), activityType |-> activityType,
   duration |-> duration, quantity |-> quantity]

MaxPoints == 3

\* the points a series is made of: three days, two values
PointInputs ==
  {[date |-> DateAt(FirstDay + i, 0), value |-> FNum(v)] : i \in 0..2, v \in {10, 12}}

SeriesInputs == UNION {[1..n -> PointInputs] : n \in 0..MaxPoints}

\* what a day of the record lists holds: nothing, a feeding without a
\* duration, or a feeding with one
DayKinds == {"none", "plain", "timed"}

\* the record of day i of a profile: a feeding at 09:00 UTC
DayRecord(profile, i) ==
  Record(i, FirstDay + i - 1, 32400000, "feeding",
         IF profile[i] = "timed" THEN Some(FNum(1 + ((i * i) % 3))) ELSE None, None)

\* the records of the days of a profile
DayRecords(profile) ==
  AtIndices([i \in 1..Len(profile) |-> DayRecord(profile, i)],
            {i \in 1..Len(profile) : profile[i] # "none"})

\* records put in front of those of the days
ExtraInputs ==
  { << >>,
    << Record(11, FirstDay, 75600000, "feeding", Some(FNum(3)), None) >>,
    << Record(12, FirstDay + 2, 0, "feeding", None, Some(FNum(2))) >>,
    << Record(13, FirstDay + 1, 0, "sleeping", Some(FNum(0)), Some(FNum(1))) >>,
    << Record(14, FirstDay + MIN_DAYS_FOR_TREND + 1, 86399999, "feeding", Some(FNum(0)), None) >> }

\* the weeks: the first three days with a timed feeding or none, the others
\* of any kind
WeekProfiles ==
  {profile \in [1..MIN_DAYS_FOR_TREND -> DayKinds] : \A i \in 1..3 : profile[i] # "plain"}

\* the days of a week after one of the extra records
RecordInputs ==
  {extra \o DayRecords(profile) : extra \in ExtraInputs, profile \in WeekProfiles}

\* trends as analyzeAllTrends produces them
TrendInput(metric, confidence, significance) ==
  [activityType |-> "feeding", metric |-> metric, direction |-> "increasing",
   magnitude |-> Frac(3, 2), confidence |-> confidence, significance |-> significance,
   dataPoints |-> 7, hasEnoughData |-> TRUE]

TrendInputs ==
  { TrendInput("frequency", Frac(4, 5), "high"),
    TrendInput("duration", Frac(19, 20), "high"),
    TrendInput("quantity", Frac(1, 2), "medium"),
    TrendInput("frequency", Frac(3, 10), "low") }

TrendLists == UNION {[1..n -> TrendInputs] : n \in 0..MaxPoints}

MaxFrequencyRecords == 4

\* the days and activity types of the records of calculateDailyFrequency
FrequencyKinds == {0, 1, 2} \X {"feeding", "sleeping"}

\* lists of up to MaxFrequencyRecords records of three days and two types, in
\* every order; the i-th record is 6 (i - 1) hours after midnight UTC
FrequencyInputs ==
  UNION {{[i \in 1..n |-> Record(i, FirstDay + kinds[i][1], ((i - 1) % 4) * 21600000,
                                  kinds[i][2], None, None)] :
            kinds \in [1..n -> FrequencyKinds]} : n \in 0..MaxFrequencyRecords}

TrendCalls ==
  {[fn |-> "calculateLinearRegression", data |-> data] : data \in SeriesInputs}
  \cup {[fn |-> "analyzeTrendForFrequency", records |-> recs, activityType |-> "feeding"] :
          recs \in RecordInputs}
  \cup {[fn |-> "analyzeTrendForMetric", records |-> recs, activityType |-> "feeding",
         metric |-> metric] : recs \in RecordInputs, metric \in {"duration", "quantity"}}
  \cup {[fn |-> "analyzeAllTrends", records |-> recs, activityType |-> "feeding"] :
          recs \in RecordInputs}
  \cup {[fn |-> "getSignificantTrends", trends |-> trends] : trends \in TrendLists}
  \cup {[fn |-> "calculateDailyFrequency", records |-> recs, activityType |-> "feeding"] :
          recs \in FrequencyInputs}

\* a call that has not returned
Calling(fn) == call.fn = fn /\ returned = None

\* the call returns a value and leaves its arguments as they are
Returns(value) ==
  /\ returned' = Some(value)
  /\ UNCHANGED << call, parserVars, csvVars, storeVars, workerVars >>

CallCalculateLinearRegression ==
  /\ Calling("calculateLinearRegression")
  /\ Returns(calculateLinearRegression(call.data))

CallAnalyzeTrendForFrequency ==
  /\ Calling("analyzeTrendForFrequency")
  /\ Returns(analyzeTrendForFrequency(call.records, call.activityType))

CallAnalyzeTrendForMetric ==
  /\ Calling("analyzeTrendForMetric")
  /\ Returns(analyzeTrendForMetric(call.records, call.activityType, call.metric))

CallAnalyzeAllTrends ==
  /\ Calling("analyzeAllTrends")
  /\ Returns(analyzeAllTrends(call.records, call.activityType))

CallGetSignificantTrends ==
  /\ Calling("getSignificantTrends")
  /\ Returns(getSignificantTrends(call.trends))

CallCalculateDailyFrequency ==
  /\ Calling("calculateDailyFrequency")
  /\ Returns(calculateDailyFrequency(call.records, call.activityType))

NextTrend ==
  \/ CallCalculateDailyFrequency
  \/ CallCalculateLinearRegression
  \/ CallAnalyzeTrendForFrequency
  \/ CallAnalyzeTrendForMetric
  \/ CallAnalyzeAllTrends
  \/ CallGetSignificantTrends

InitTrend ==
  /\ InitParser /\ InitCsv /\ InitWorker /\ InitialState
  /\ timezoneOffset = 0
  /\ call \in TrendCalls
  /\ returned = None

SpecTrend == InitTrend /\ [][NextTrend]_vars

\* ------------------------------------------------------------------------
\* Inputs of the correlation specification.

\* what a day of the record lists holds: a feeding, a sleep, or both; a
\* day after them may hold a diaper change only
CorrelationDayKinds == {"feeding", "sleeping", "both"}

\* the records of day i of a profile
CorrelationDay(profile, i) ==
  IF profile[i] = "feeding" THEN << Record(2 * i, FirstDay + i - 1, 0, "feeding", None, None) >>
  ELSE IF profile[i] = "sleeping"
    THEN << Record(2 * i, FirstDay + i - 1, 0, "sleeping", None, None) >>
  ELSE IF profile[i] = "both"
    THEN << Record(2 * i, FirstDay + i - 1, 0, "sleeping", None, None),
            Record(2 * i + 1, FirstDay + i - 1, 3600000, "feeding", None, None) >>
  ELSE << Record(2 * i, FirstDay + i - 1, 0, "diaper", None, None) >>

\* the records of the days of a profile, the last day first
RECURSIVE CorrelationRecords(_, _)
CorrelationRecords(profile, n) ==
  IF n = 0 THEN << >> ELSE CorrelationDay(profile, n) \o CorrelationRecords(profile, n - 1)

CorrelationInputs ==
  {CorrelationRecords(profile \o last, Len(profile \o last)) :
     profile \in UNION {[1..n -> CorrelationDayKinds] : n \in {6, 7}},
     last \in {<< >>, << "other" >>}}

MaxTail == 2

\* feedings of 10 and 12 minutes, one a day
BaseRecords(n) ==
  [i \in 1..n |-> Record(i, FirstDay + i, 0, "feeding",
                         Some(FNum(IF i % 2 = 0 THEN 12 ELSE 10)), None)]

\* the records that follow them: a long feeding, a short one, one without
\* a duration and a long sleep, each under either of two ids
TailInputs ==
  {Record(id, FirstDay, 0, "feeding", duration, None) :
     id \in {21, 22}, duration \in {Some(FNum(100)), Some(FNum(1)), None}}
  \cup {Record(id, FirstDay, 0, "sleeping", Some(FNum(100)), None) : id \in {21, 22}}

\* four feedings of one duration
SteadyRecords ==
  [i \in 1..4 |-> Record(i, FirstDay + i, 0, "feeding", Some(FNum(10)), None)]

OutlierInputs ==
  {BaseRecords(n) \o tail :
     n \in {3, 4, 11}, tail \in UNION {[1..k -> TailInputs] : k \in 0..MaxTail}}
  \cup {SteadyRecords \o tail : tail \in UNION {[1..k -> TailInputs] : k \in 0..MaxTail}}

CorrelationCalls ==
  {[fn |-> "calculateActivityCorrelation", records |-> recs,
    activityType1 |-> "feeding", activityType2 |-> "sleeping"] : recs \in CorrelationInputs}
  \cup {[fn |-> fn, records |-> recs, activityType |-> "feeding", metric |-> "duration"] :
          fn \in {"detectOutliersZScore", "detectOutliersIQR", "detectAllOutliers"},
          recs \in OutlierInputs}

CallCalculateActivityCorrelation ==
  /\ Calling("calculateActivityCorrelation")
  /\ Returns(calculateActivityCorrelation(call.records, call.activityType1, call.activityType2))

CallDetectOutliersZScore ==
  /\ Calling("detectOutliersZScore")
  /\ Returns(detectOutliersZScore(call.records, call.activityType, call.metric, FNum(3)))

CallDetectOutliersIQR ==
  /\ Calling("detectOutliersIQR")
  /\ Returns(detectOutliersIQR(call.records, call.activityType, call.metric, Frac(3, 2)))

CallDetectAllOutliers ==
  /\ Calling("detectAllOutliers")
  /\ Returns(detectAllOutliers(call.records, call.activityType, call.metric))

NextCorrelation ==
  \/ CallCalculateActivityCorrelation
  \/ CallDetectOutliersZScore
  \/ CallDetectOutliersIQR
  \/ CallDetectAllOutliers

InitCorrelation ==
  /\ InitParser /\ InitCsv /\ InitWorker /\ InitialState
  /\ timezoneOffset = 0
  /\ call \in CorrelationCalls
  /\ returned = None

SpecCorrelation == InitCorrelation /\ [][NextCorrelation]_vars

\* ------------------------------------------------------------------------
\* Inputs of the statistics specification.

MaxRecords == 2

\* times of day: midnight, noon, and the last millisecond of the day and
\* the first of the next in each zone
TimeInputs ==
  { DateAt(FirstDay, 0), DateAt(FirstDay, 43200000),
    DateAt(FirstDay, 53999999), DateAt(FirstDay, 54000000),
    DateAt(FirstDay, 86399999), DateAt(FirstDay + 1, 0),
    DateAt(FirstDay + 1, 17999999), DateAt(FirstDay + 1, 18000000) }

TimedRecords ==
  UNION {[1..n -> {Record(1, t.day, t.ms, "feeding", None, None) : t \in TimeInputs}] :
           n \in 0..MaxRecords}

Undefined == [type |-> "undefined"]

DateArguments ==
  { Undefined,
    [type |-> "string", value |-> DateKey(DateAt(FirstDay, 0))],
    [type |-> "Date", value |-> DateAt(FirstDay, 43200000)] }

\* a day and more between the records
SpreadRecords ==
  UNION {[1..n -> {Record(1, t.day, t.ms, activityType, None, None) :
                     t \in {DateAt(FirstDay, 0), DateAt(FirstDay, 1), DateAt(FirstDay + 1, 0),
                            DateAt(FirstDay + 1, 1), DateAt(FirstDay + 2, 43200000)},
                     activityType \in {"feeding", "sleeping"}}] :
           n \in 0..MaxRecords}

StatisticsCalls ==
  {[fn |-> "filterByDateRange", records |-> recs, startDate |-> startDate,
    endDate |-> endDate] :
     recs \in TimedRecords, startDate \in DateArguments, endDate \in DateArguments}
  \cup {[fn |-> "calculateOverallStatistics", records |-> recs] : recs \in SpreadRecords}

CallFilterByDateRange ==
  /\ Calling("filterByDateRange")
  /\ returned' = Some(filterByDateRange(call.records, call.startDate, call.endDate))
  /\ call' = [call EXCEPT !.endDate = EndDateAfterFilter(call.endDate)]
  /\ UNCHANGED << parserVars, csvVars, storeVars, workerVars >>

CallCalculateOverallStatistics ==
  /\ Calling("calculateOverallStatistics")
  /\ Returns(calculateOverallStatistics(call.records))

NextStatistics ==
  \/ CallFilterByDateRange
  \/ CallCalculateOverallStatistics

InitStatistics ==
  /\ InitParser /\ InitCsv /\ InitWorker /\ InitialState
  /\ timezoneOffset \in {0 - 300, 0, 540}
  /\ call \in StatisticsCalls
  /\ returned = None

SpecStatistics == InitStatistics /\ [][NextStatistics]_vars

\* ------------------------------------------------------------------------
\* The summary specification: getUniqueActivityTypes and calculateSummary
\* are applied to lists of records and arrays of numbers.

MaxTypes == 4

MaxValues == 4

\* the activity types of the record lists
TypeInputs == {"feeding", "sleeping", "diaper"}

\* record lists of every order of up to MaxTypes records of the three types
TypedRecords ==
  UNION {{[i \in 1..n |-> Record(i, FirstDay, i, types[i], None, None)] :
            types \in [1..n -> TypeInputs]} : n \in 0..MaxTypes}

\* the numbers of the arrays
ValueInputs == {FNum(10), FNum(20), FNum(30), FNum(40)}

\* arrays of up to MaxValues numbers, in every order, repetitions included
ValueArrays == UNION {[1..n -> ValueInputs] : n \in 0..MaxValues}

SummaryCalls ==
  {[fn |-> "getUniqueActivityTypes", records |-> recs] : recs \in TypedRecords}
  \cup {[fn |-> "calculateSummary", values |-> values] : values \in ValueArrays}

CallGetUniqueActivityTypes ==
  /\ Calling("getUniqueActivityTypes")
  /\ Returns(getUniqueActivityTypes(call.records))

CallCalculateSummary ==
  /\ Calling("calculateSummary")
  /\ Returns(calculateSummary(call.values))

NextSummary ==
  \/ CallGetUniqueActivityTypes
  \/ CallCalculateSummary

InitSummary ==
  /\ InitParser /\ InitCsv /\ InitWorker /\ InitialState
  /\ timezoneOffset = 0
  /\ call \in SummaryCalls
  /\ returned = None

SpecSummary == InitSummary /\ [][NextSummary]_vars

\* ------------------------------------------------------------------------
\* The format specification: formatPiyologParseErrors is applied to lists
\* of errors.

MaxErrors == 12

\* an error with the raw text of its line, and one without a raw text
ErrorKinds == {"raw", "bare"}

\* the i-th error of a list: line numbers grow along the list
ErrorInput(kind, i) ==
  [line |-> 7 * i,
   message |-> IF kind = "raw" THEN << "Unknown activity type: ", "x" >>
               ELSE << "No date header found before event" >>,
   rawText |-> IF kind = "raw" THEN << "1", "1", ":", "2", "5", " ", "x" >> ELSE << >>]

ErrorLists ==
  UNION {{[i \in 1..n |-> ErrorInput(kinds[i], i)] : kinds \in [1..n -> ErrorKinds]} :
           n \in 0..MaxErrors}

FormatCalls == {[fn |-> "formatPiyologParseErrors", errors |-> errors] : errors \in ErrorLists}

CallFormatPiyologParseErrors ==
  /\ Calling("formatPiyologParseErrors")
  /\ Returns(formatPiyologParseErrors(call.errors))

NextFormat == CallFormatPiyologParseErrors

InitFormat ==
  /\ InitParser /\ InitCsv /\ InitWorker /\ InitialState
  /\ timezoneOffset = 0
  /\ call \in FormatCalls
  /\ returned = None

SpecFormat == InitFormat /\ [][NextFormat]_vars

\* ------------------------------------------------------------------------
\* The worker specification: one sendWorkerMessage call, a Worker that posts
\* up to MaxPosts events of any kind, and the clock.

MaxPosts == 3

\* the clock advances in steps of a third of the default timeout, up to
\* MaxSteps steps
MaxSteps == 4

ClockStep == DefaultTimeout \div 3

\* the timeout argument: undefined, and a timeout of one step
TimeoutArguments == {None, Some(ClockStep)}

WorkerEvents ==
  {[type |-> "progress", message |-> "Computing", percent |-> 50],
   [type |-> "error", error |-> "Unknown error"],
   [type |-> "all_result"],
   [type |-> "statistics_result"],
   [type |-> "other"],
   [type |-> "errorevent", message |-> "script error"]}

NextWorker ==
  \/ \E timeout \in TimeoutArguments : SendWorkerMessage(timeout)
  \/ \E event \in WorkerEvents : WorkerPosts(event, MaxPosts)
  \/ HandleEvent
  \/ TimeoutFires
  \/ TimePasses(ClockStep, MaxSteps * ClockStep)

SpecWorker == Init /\ [][NextWorker]_vars

\* the event loop runs the callback of a timer that is due, and time passes
SpecWorkerFair ==
  /\ SpecWorker
  /\ WF_vars(TimeoutFires)
  /\ WF_vars(TimePasses(ClockStep, MaxSteps * ClockStep))

\* ------------------------------------------------------------------------
\* The fetch specification: fetchWithRetry is called with a configuration,
\* a number of retries and the outcomes of the successive fetch calls.

MaxRetries == 3

FetchOutcomes ==
  {[kind |-> "response", status |-> 200, json |-> TRUE],
   [kind |-> "response", status |-> 200, json |-> FALSE],
   [kind |-> "response", status |-> 401, json |-> FALSE],
   [kind |-> "response", status |-> 404, json |-> FALSE],
   [kind |-> "response", status |-> 429, json |-> TRUE],
   [kind |-> "response", status |-> 503, json |-> TRUE],
   [kind |-> "error", name |-> "TypeError"],
   [kind |-> "error", name |-> "AbortError"]}

\* 'testuser' with the passwords 'pw' and 'パス', and a timeout
ConfigInputs ==
  {[username |-> << 116, 101, 115, 116, 117, 115, 101, 114 >>, password |-> << 112, 119 >>,
    timeout |-> None],
   [username |-> << 116, 101, 115, 116, 117, 115, 101, 114 >>, password |-> << 112, 119 >>,
    timeout |-> Some(1000)],
   [username |-> << 116, 101, 115, 116, 117, 115, 101, 114 >>, password |-> << 12497, 12473 >>,
    timeout |-> None]}

CallFetchWithRetry ==
  /\ Calling("fetchWithRetry")
  /\ Returns(fetchWithRetry(call.config, call.responses, call.retries))

NextFetch == CallFetchWithRetry

InitFetch ==
  /\ InitParser /\ InitCsv /\ InitWorker /\ InitialState
  /\ timezoneOffset = 0
  /\ \E retries \in 0..MaxRetries, config \in ConfigInputs :
       \E responses \in [1..(retries + 1) -> FetchOutcomes] :
         call = [fn |-> "fetchWithRetry", config |-> config, responses |-> responses,
                 retries |-> retries]
  /\ returned = None

SpecFetch == InitFetch /\ [][NextFetch]_vars

\* ------------------------------------------------------------------------
\* The analytics worker specification: the Worker receives one request.

MaxWorkerRecords == 2

\* a feeding with a duration, a sleep, and a diaper record with a quantity
WorkerRecordInputs ==
  {Record(1, FirstDay, 28800000, "feeding", Some(FNum(15)), None),
   Record(2, FirstDay, 50400000, "sleeping", Some(FNum(90)), None),
   Record(3, FirstDay + 1, 3600000, "diaper", None, Some(FNum(1)))}

WorkerRecords == UNION {[1..n -> WorkerRecordInputs] : n \in 0..MaxWorkerRecords}

ActivityTypeLists == {<< >>, << "feeding" >>, << "feeding", "sleeping" >>,
                      << "sleeping", "diaper", "feeding" >>}

RequestTypes ==
  {"compute_all", "compute_statistics", "compute_trends", "compute_correlations", "compute_other"}

WorkerRequests ==
  {[fn |-> "onmessage",
    data |-> [type |-> type, records |-> recs, activityTypes |-> activityTypes]] :
     type \in RequestTypes, recs \in WorkerRecords, activityTypes \in ActivityTypeLists}

\* self.onmessage: the Worker handles a request and queues what it posts
WorkerOnMessage ==
  /\ Calling("onmessage")
  /\ ~worker.terminated
  /\ worker' = [worker EXCEPT !.outbox = @ \o PostedFor(call.data)]
  /\ returned' = Some([type |-> "undefined"])
  /\ UNCHANGED << call, promise, timer, elapsed, parserVars, csvVars, storeVars >>

NextAnalyticsWorker == WorkerOnMessage

InitAnalyticsWorker ==
  /\ InitParser /\ InitCsv /\ InitWorker /\ InitialState
  /\ timezoneOffset \in {0, 540}
  /\ call \in WorkerRequests
  /\ returned = None

SpecAnalyticsWorker == InitAnalyticsWorker /\ [][NextAnalyticsWorker]_vars

\* ------------------------------------------------------------------------
\* The grouping specification: the parser reads a text of date headers and
\* events, and groupRecordsByDate groups the records it returns.

MaxGroupingLines == 4

\* 2025/4/11(金)
LineDate11 == << "2", "0", "2", "5", "/", "4", "/", "1", "1", "(", "KIN", ")" >>

\* 0:30 おしっこ
LineEarlyPee == << "0", ":", "3", "0", " " >> \o KwPee

\* 23:30 おしっこ
LineNightPee == << "2", "3", ":", "3", "0", " " >> \o KwPee

GroupingDateLines == {LineDate10, LineDate11}

GroupingLineInputs == GroupingDateLines \cup {LineEarlyPee, LinePee, LineNightPee}

ReadGroupingLine ==
  /\ Len(lines) < MaxGroupingLines
  /\ ReadLineFrom(GroupingLineInputs)

\* the Date of a parser record as the analytics functions see it: the
\* instant of its local time
AsInstant(date) == DateAt(GetTime(date) \div 1440, (GetTime(date) % 1440) * 60000)

\* the records of a parse result with their ids
RecordsOfResult(recs) ==
  [i \in 1..Len(recs) |->
     Record(i, AsInstant(recs[i].timestamp).day, AsInstant(recs[i].timestamp).ms,
            recs[i].activityType, None, None)]

\* groupRecordsByDate is called with the records the parser has returned
GroupParsedRecords ==
  /\ result # None
  /\ returned = None
  /\ call' = [fn |-> "groupRecordsByDate", records |-> RecordsOfResult(result[1].records)]
  /\ returned' = Some(groupRecordsByDate(RecordsOfResult(result[1].records)))
  /\ UNCHANGED << parserVars, csvVars, storeVars, workerVars >>

NextGrouping == ReadGroupingLine \/ Return \/ GroupParsedRecords

InitGrouping ==
  /\ InitParser /\ InitCsv /\ InitWorker /\ InitialState
  /\ NoCall
  /\ timezoneOffset \in {0 - 300, 0, 540}

SpecGrouping == InitGrouping /\ [][NextGrouping]_vars

\* ------------------------------------------------------------------------
\* Vocabulary of the scanner properties.

\* a step of the loop, and the (trimmed) line it handled
LineRead == Len(lines') = Len(lines) + 1

NewLine == Trim(lines'[Len(lines')])

SameOutput == scan'.records = scan.records /\ scan'.errors = scan.errors

IsDateLine(line) == MatchDate(line) # None

IsEventLine(line) == MatchEvent(line) # None

\* the event type of an event line
LineEventType(line) == EventTypeOf(MatchEvent(line)[1].text)

HasKeyword(eventType) ==
  \E k \in 1..Len(ACTIVITY_TYPE_MAP) : Includes(eventType, ACTIVITY_TYPE_MAP[k].japanese)

UnknownEventLine(line) == IsEventLine(line) /\ ~HasKeyword(LineEventType(line))

KnownEventLine(line) == IsEventLine(line) /\ HasKeyword(LineEventType(line))

ContainsMarker(line) ==
  \/ Includes(line, << "GOU", "KEI" >>)
  \/ Includes(line, << "KON", "NICHI", "hHA" >>)
  \/ Includes(line, << "kME", "kMO" >>)

\* the line is consumed by the child-info or the summary recognizer
Consumed(line) == ContainsMarker(line) \/ MatchChildInfo(line)

\* the position of the last date header of a text (0 when there is none)
LastDateIndex(ls) ==
  LET at == {j \in 1..Len(ls) : IsDateLine(Trim(ls[j]))}
  IN IF at = {} THEN 0 ELSE CHOOSE j \in at : \A k \in at : k <= j

\* C1 (as stated): every emitted record carries the calendar date named by
\* the most recent date header before its line and the hour and minute of
\* its H:MM prefix, for every line the event pattern accepts.
C1_TimestampIsHeaderDateAndLineTime ==
  [][ (LineRead /\ Len(scan'.records) = Len(scan.records) + 1) =>
        LET r  == scan'.records[Len(scan'.records)]
            ev == MatchEvent(NewLine)[1]
            hd == MatchDate(Trim(lines[LastDateIndex(lines)]))[1]
        IN r.timestamp = [year |-> ParseInt(hd.year), month |-> ParseInt(hd.month),
                          day |-> ParseInt(hd.day), hour |-> ParseInt(ev.hour),
                          minute |-> ParseInt(ev.minute)] ]_vars

\* the ParseError an unknown event line is reported with
UnknownError(line, lineNumber) ==
  [line |-> lineNumber,
   message |-> << "Unknown activity type: " >> \o LineEventType(line),
   rawText |-> line]

\* C2 (as stated): every event line after a date header whose event type
\* holds no known keyword yields exactly one ParseError and no Record.
C2_UnknownLineAlwaysReported ==
  [][ (LineRead /\ scan.currentDate # None /\ UnknownEventLine(NewLine)) =>
        /\ scan'.errors = Append(scan.errors, UnknownError(NewLine, Len(lines')))
        /\ scan'.records = scan.records ]_vars

\* C2 (amended): an event line after a date header that holds no summary
\* marker and is not a child-info line yields, when its event type holds no
\* known keyword, exactly one ParseError (message, 1-based line number,
\* rawText = the trimmed line) and no Record, and leaves currentDate alone;
\* every such line with a known keyword still yields exactly one Record and
\* no error, whatever errors came before it.
C2_UnknownActivityIsolation ==
  [][ (LineRead /\ scan.currentDate # None /\ ~Consumed(NewLine)) =>
        /\ UnknownEventLine(NewLine) =>
             /\ scan'.errors = Append(scan.errors, UnknownError(NewLine, Len(lines')))
             /\ scan'.records = scan.records
             /\ scan'.currentDate = scan.currentDate
        /\ KnownEventLine(NewLine) =>
             /\ Len(scan'.records) = Len(scan.records) + 1
             /\ scan'.parsedEvents = scan.parsedEvents + 1
             /\ scan'.errors = scan.errors ]_vars

\* a date header, an unknown event line, then a valid event line: one
\* error and one record
C2_Witness ==
  /\ Len(lines) = 3
  /\ IsDateLine(Trim(lines[1]))
  /\ UnknownEventLine(Trim(lines[2])) /\ ~Consumed(Trim(lines[2]))
  /\ KnownEventLine(Trim(lines[3])) /\ ~Consumed(Trim(lines[3]))
  /\ Len(scan.errors) = 1 /\ scan.errors[1].line = 2
  /\ Len(scan.records) = 1

\* the record the event line at position n of the text yields on its own
RecordOfLine(ls, n) ==
  [parseEventLine(Trim(ls[n]), scan.currentDate[1], n).record[1]
     EXCEPT !.metadata = [importedFilename |-> TestFilename]]

\* the text is one date header followed by event lines that satisfy ok
HeaderThenEvents(ls, ok(_)) ==
  /\ Len(ls) >= 1
  /\ IsDateLine(Trim(ls[1]))
  /\ \A i \in 2..Len(ls) : ok(Trim(ls[i]))

\* N records in line order, no errors, parsedEvents = N, also in the
\* returned object
RoundTrip(ls) ==
  /\ Len(scan.records) = Len(ls) - 1
  /\ scan.errors = << >>
  /\ scan.parsedEvents = Len(ls) - 1
  /\ \A k \in 1..Len(scan.records) :
       k + 1 <= Len(ls) => scan.records[k] = RecordOfLine(ls, k + 1)
  /\ result # None =>
       /\ Len(result[1].records) = Len(ls) - 1
       /\ result[1].records = scan.records
       /\ result[1].errors = << >>
       /\ result[1].parsedEvents = Len(result[1].records)

\* C3 (as stated): one date header followed by N event lines whose event
\* type holds a known keyword gives N records in line order, no errors and
\* parsedEvents = N.
C3_WellFormedRoundTripAsStated ==
  HeaderThenEvents(lines, KnownEventLine) => RoundTrip(lines)

ValidEventLine(line) == KnownEventLine(line) /\ ~Consumed(line)

\* C3 (amended): the same, for event lines that hold no summary marker
\* (合計, 今日は, メモ) and do not end in a child-info suffix.
C3_WellFormedRoundTrip ==
  HeaderThenEvents(lines, ValidEventLine) => RoundTrip(lines)

\* a header and two valid event lines, parsed and returned
C3_Witness ==
  /\ Len(lines) = 3
  /\ HeaderThenEvents(lines, ValidEventLine)
  /\ result # None
  /\ Len(result[1].records) = 2

\* the line matches none of the recognizers
NoRecognizer(line) ==
  /\ line # SEPARATOR
  /\ MatchHeader(line) = None
  /\ ~IsDateLine(line)
  /\ ~Consumed(line)
  /\ ~IsEventLine(line)

\* C4: an event line read before any date header, and a non-blank line
\* that matches no recognizer, give no Record and no ParseError and leave
\* currentDate alone; a ParseError comes only from an event line read after
\* a date header.
C4_OutOfContextLinesIgnored ==
  [][ LineRead =>
        /\ ( \/ (IsEventLine(NewLine) /\ scan.currentDate = None)
             \/ (NewLine # << >> /\ NoRecognizer(NewLine)) )
           => (SameOutput /\ scan'.currentDate = scan.currentDate)
        /\ scan'.errors # scan.errors =>
             (scan.currentDate # None /\ IsEventLine(NewLine)) ]_vars

\* an event line before the first date header and an unrecognized line
\* after it, with nothing emitted
C4_Witness ==
  /\ Len(lines) = 3
  /\ IsEventLine(Trim(lines[1])) /\ ~Consumed(Trim(lines[1]))
  /\ IsDateLine(Trim(lines[2]))
  /\ lines[3] # << >> /\ NoRecognizer(Trim(lines[3]))
  /\ scan.records = << >> /\ scan.errors = << >>
  /\ scan.currentDate # None

\* C5 (as stated): a line that holds a summary marker never yields a
\* Record or a ParseError and never changes currentDate.
C5_MarkerLineChangesNothing ==
  [][ (LineRead /\ ContainsMarker(NewLine)) =>
        (SameOutput /\ scan'.currentDate = scan.currentDate) ]_vars

\* C5 (amended): a line that holds a summary marker never yields a Record
\* or a ParseError; it leaves currentDate alone unless the line is itself a
\* date header (YYYY/M/D(...) with the marker between the parentheses).
C5_SummaryLineSuppressed ==
  [][ (LineRead /\ ContainsMarker(NewLine)) =>
        /\ SameOutput
        /\ ~IsDateLine(NewLine) => scan'.currentDate = scan.currentDate ]_vars

\* after a date header, an event line with a marker in its detail and an
\* unknown event line with a marker were consumed without output
C5_Witness ==
  /\ Len(lines) = 3
  /\ IsDateLine(Trim(lines[1]))
  /\ KnownEventLine(Trim(lines[2])) /\ ContainsMarker(lines[2])
  /\ UnknownEventLine(Trim(lines[3])) /\ ContainsMarker(lines[3])
  /\ scan.records = << >> /\ scan.errors = << >>

\* ------------------------------------------------------------------------
\* The event-line specification: a date header, then event lines drawn
\* from every combination of an event type and a detail text.

KwBreast == << "BO", "NYU" >>

KwMilk == << "kMI", "kRU", "kKU" >>

KwExpressed == << "SAKU", "BO", "NYU" >>

KwSleep == << "SUI", "MIN" >>

KwHeight == << "SHIN", "CHOU" >>

KwTemp == << "TAI", "ON" >>

EventTypeInputs ==
  { KwBreast, KwMilk, KwExpressed, KwSleep, KwPee, KwPoo, KwWeight, KwHeight,
    KwTemp, << "hO", "FURO1", "FURO2" >>, << "BYOU", "IN" >>,
    << "hKU", "hSU", "hRI" >>, KwOther, KwWalk,
    << "x", "y" >>,               \* no keyword
    KwSleep \o KwWeight,          \* 睡眠体重
    KwTemp \o KwBreast,           \* 体温母乳
    KwPee \o KwTemp }             \* おしっこ体温

Left10 == << "HIDARI", "1", "0", "FUN" >>

Right5 == << "MIGI", "5", "FUN" >>

DetailInputs ==
  { << >>,
    Left10 \o << " ", "ARROW", " " >> \o Right5,     \* 左10分 ▶ 右5分
    Left10 \o << "/" >> \o Right5,                   \* 左10分/右5分
    Left10 \o << " " >> \o Right5,                   \* 左10分 右5分
    Right5 \o << " ", "ARROW", " " >> \o Left10,     \* 右5分 ▶ 左10分
    << "HIDARI", "7", "FUN" >>,                      \* 左7分
    << "MIGI", "0", "8", "FUN" >>,                   \* 右08分
    << "x", "y" >>,
    << "1", "0", "0", "m", "l" >>,                   \* 100ml
    << "2", ".", "6", "4", "k", "g" >>,              \* 2.64kg
    << "4", "9", ".", "0", "c", "m" >>,              \* 49.0cm
    << "3", "6", ".", "9", "DEG", "C" >> }           \* 36.9°C

EventInputs ==
  { Str1125 \o << " " >> \o et \o (IF dt = << >> THEN << >> ELSE << " " >> \o dt) :
      et \in EventTypeInputs, dt \in DetailInputs }

\* the number of event lines the event-line specification reads
MaxEvents == 1

ReadDateHeader ==
  /\ lines = << >>
  /\ ReadLineFrom({LineDate10})

ReadEventLine ==
  /\ Len(lines) >= 1
  /\ Len(lines) <= MaxEvents
  /\ ReadLineFrom(EventInputs)

NextEvent == ReadDateHeader \/ ReadEventLine \/ Return

SpecEvent == Init /\ [][NextEvent]_vars

\* ------------------------------------------------------------------------
\* Vocabulary of the event-line properties.

\* the step pushed a record
RecordEmitted == LineRead /\ Len(scan'.records) = Len(scan.records) + 1

NewRecord == scan'.records[Len(scan'.records)]

LineDetails(line) == DetailsOf(MatchEvent(line)[1].text)

\* a figure <side>N分 starts at position i of text
FigureAt(text, i, side) ==
  /\ i \in 1..Len(text)
  /\ text[i] = side
  /\ \E n \in 1..Len(text) :
       /\ i + n + 1 <= Len(text)
       /\ IsDigits(SubSeq(text, i + 1, i + n))
       /\ text[i + n + 1] = "FUN"

HasFigure(text, side) == \E i \in 1..Len(text) : FigureAt(text, i, side)

\* the minutes of the first figure of that side
FirstFigure(text, side) ==
  LET i == Min({j \in 1..Len(text) : FigureAt(text, j, side)})
  IN ParseInt(SubSeq(text, i + 1, i + RunLen(Drop(text, i + 1), Digit)))

BothSidesNotes(n, m) ==
  << "HIDARI" >> \o IntToStr(n) \o << "FUN", " ", "MIGI" >> \o IntToStr(m) \o << "FUN" >>

OneSideNotes(side, n) == << side >> \o IntToStr(n) \o << "FUN" >>

IsBreastFeedingStep ==
  RecordEmitted /\ Includes(LineEventType(NewLine), << "BO", "NYU" >>)

PairAt(text, i, j) ==
  /\ FigureAt(text, i, "HIDARI")
  /\ FigureAt(text, j, "MIGI")
  /\ \E p \in (i + 1)..(j - 1) :
       /\ text[p] \in {"ARROW", "/"}
       /\ text[RunLen(Drop(text, i + 1), Digit) + i + 1] = "FUN"
       /\ \A q \in (RunLen(Drop(text, i + 1), Digit) + i + 2)..(j - 1) :
            q # p => text[q] \in WhiteSpace

HasPair(text) == \E i, j \in 1..Len(text) : PairAt(text, i, j)

\* the minutes << N, M >> of the leftmost pair
FirstPair(text) ==
  LET i == Min({a \in 1..Len(text) : \E b \in 1..Len(text) : PairAt(text, a, b)})
      j == CHOOSE b \in 1..Len(text) : PairAt(text, i, b)
  IN << ParseInt(SubSeq(text, i + 1, i + RunLen(Drop(text, i + 1), Digit))),
        ParseInt(SubSeq(text, j + 1, j + RunLen(Drop(text, j + 1), Digit))) >>

HasMl(text) ==
  \E i \in 1..Len(text) : text[i] \in Digit /\ MatchesAt(text, i + 1, << "m", "l" >>)

FirstMl(text) ==
  LET e == Min({i \in 1..Len(text) :
                  text[i] \in Digit /\ MatchesAt(text, i + 1, << "m", "l" >>)})
      b == Min({i \in 1..e : IsDigits(SubSeq(text, i, e))})
  IN ParseInt(SubSeq(text, b, e))

\* C7 (as stated): every event whose event type is a bottle marker (ミルク)
\* or an expressed-milk marker (搾母乳) and whose detail holds Nml gives a
\* record with activityType feeding, quantity N, no duration and the raw
\* detail as notes.
C7_MilkQuantity ==
  [][ ( /\ LineRead
        /\ scan.currentDate # None
        /\ IsEventLine(NewLine)
        /\ ~Consumed(NewLine)
        /\ \/ Includes(LineEventType(NewLine), << "kMI", "kRU", "kKU" >>)
           \/ Includes(LineEventType(NewLine), << "SAKU", "BO", "NYU" >>)
        /\ HasMl(LineDetails(NewLine)) ) =>
        /\ RecordEmitted
        /\ NewRecord.activityType = "feeding"
        /\ NewRecord.quantity = Some(Num(FirstMl(LineDetails(NewLine))))
        /\ NewRecord.duration = None
        /\ NewRecord.notes = Some(LineDetails(NewLine)) ]_vars

\* the type of the first table entry whose keyword the event type holds
FirstKeywordType(eventType) ==
  ACTIVITY_TYPE_MAP[
    Min({k \in 1..Len(ACTIVITY_TYPE_MAP) :
           Includes(eventType, ACTIVITY_TYPE_MAP[k].japanese)})].type

NoRecordWithoutKeyword ==
  (LineRead /\ IsEventLine(NewLine) /\ ~HasKeyword(LineEventType(NewLine)))
    => scan'.records = scan.records

IsFeedingType(eventType) ==
  \/ Includes(eventType, << "BO", "NYU" >>)
  \/ Includes(eventType, << "kMI", "kRU", "kKU" >>)

AbsentOrWithin(value, min, max) ==
  value = None \/ (~NumLess(value[1], Num(min)) /\ ~NumLess(Num(max), value[1]))

\* an optional number is absent or not negative
AbsentOrNonNegative(value) ==
  value = None \/ ~NumLess(value[1], Num(0))

\* C9: every record emitted by either parser has duration >= 0 and
\* quantity >= 0 when the field is present, and no record of the CSV
\* parser carries a duration_minutes outside 0..1440 or a quantity_ml
\* outside 0..10000.
C9_EmittedValuesInRange ==
  /\ \A i \in 1..Len(scan.records) :
       /\ AbsentOrNonNegative(scan.records[i].duration)
       /\ AbsentOrNonNegative(scan.records[i].quantity)
  /\ \A i \in 1..Len(csvOut.records) :
       /\ AbsentOrWithin(csvOut.records[i].duration, 0, MaxDurationMinutes)
       /\ AbsentOrWithin(csvOut.records[i].quantity, 0, MaxQuantityMl)

\* ------------------------------------------------------------------------
\* Claims about the store (SpecStore).

\* C10: after any sequence of importFile operations all records held in
\* the store have pairwise distinct ids.
C10_RecordIdsUnique ==
  \A i \in 1..Len(records) : \A j \in 1..Len(records) :
    i # j => records[i].id # records[j].id

\* ------------------------------------------------------------------------
\* Vocabulary of the analytics properties.

\* the call of fn has returned
Returned(fn) == call.fn = fn /\ IsSome(returned)

\* the value the call returned
ReturnValue == returned[1]

\* all values of a series are the same number
AllValuesIdentical(data) ==
  \A i \in 1..Len(data) : \A j \in 1..Len(data) : data[i].value = data[j].value

\* all points of a series are on the same date
AllDatesIdentical(data) ==
  \A i \in 1..Len(data) : \A j \in 1..Len(data) : data[i].date = data[j].date

\* ------------------------------------------------------------------------
\* C11.  calculateLinearRegression returns null whenever the series has
\* fewer than 2 points, all its values are identical, or the slope computed
\* from it is not finite (as when all points share one date); an object it
\* returns has a finite slope and a finite rSquared.
\* The code returns null only for fewer than 2 points: three points of value
\* 10 on three days give {slope: 0, intercept: 10, rSquared: 0}, and two
\* points on one date give a slope of NaN.
C11_DegenerateRegressionIsNull ==
  Returned("calculateLinearRegression") =>
    /\ (\/ Len(call.data) < 2
        \/ AllValuesIdentical(call.data)
        \/ AllDatesIdentical(call.data)) => ReturnValue = None
    /\ ReturnValue # None =>
         IsFinite(ReturnValue[1].slope) /\ IsFinite(ReturnValue[1].rSquared)

\* the daily series the trend function called builds from its records
SeriesOfCall ==
  IF call.fn = "analyzeTrendForFrequency"
    THEN calculateDailyFrequency(call.records, call.activityType)
    ELSE calculateDailyAggregation(call.records, call.activityType, call.metric, "average")

\* the metric of the trend function called
MetricOfCall == IF call.fn = "analyzeTrendForFrequency" THEN "frequency" ELSE call.metric

\* a series too short for a trend: fewer than 7 points, or first and last
\* point fewer than 6 days apart
TooShort(data) ==
  \/ Len(data) < 7
  \/ FLess(DaysBetween(data[Len(data)].date, data[1].date), FNum(6))

SomeDuration(list, activityType) ==
  \E i \in 1..Len(list) : list[i].activityType = activityType /\ list[i].duration # None

\* some record of the list is of the type and has a quantity
SomeQuantity(list, activityType) ==
  \E i \in 1..Len(list) : list[i].activityType = activityType /\ list[i].quantity # None

\* a list of trends holds one of the metric
HoldsMetric(trends, metric) == \E i \in 1..Len(trends) : trends[i].metric = metric

Significant(trend) == trend.significance \in {"medium", "high"}

\* the number of times a value occurs in a sequence
Occurrences(s, v) == Cardinality({i \in 1..Len(s) : s[i] = v})

\* ------------------------------------------------------------------------
\* C14.  getSignificantTrends returns exactly the input trends of medium or
\* high significance, a trend of higher confidence before one of lower
\* confidence whatever their order in the input.
\* The code filters and keeps the order of the input: of a trend of
\* confidence 0.8 followed by one of confidence 0.95, both high, the first
\* returned is the one of confidence 0.8.
C14_SignificantByConfidence ==
  Returned("getSignificantTrends") =>
    /\ \A i \in 1..Len(call.trends) :
         Occurrences(ReturnValue, call.trends[i]) =
           (IF Significant(call.trends[i])
              THEN Occurrences(call.trends, call.trends[i]) ELSE 0)
    /\ \A i \in 1..Len(ReturnValue) : Significant(ReturnValue[i])
    /\ \A i \in 1..Len(ReturnValue) : \A j \in 1..Len(ReturnValue) :
         i < j => ~FLess(ReturnValue[i].confidence, ReturnValue[j].confidence)

\* the calendar days on which the list has a record of one of two types
DaysOfEither(list, activityType1, activityType2) ==
  {DateKey(list[i].timestamp) :
     i \in {j \in 1..Len(list) : list[j].activityType \in {activityType1, activityType2}}}

\* ------------------------------------------------------------------------
\* C15.  calculateActivityCorrelation(records, A, B) builds its vectors
\* over the calendar days that have a record of type A or of type B: it
\* returns null when there are fewer than 7 such days, and the sample size
\* of a result is their number, whatever records of other types there are.
\* The code groups all records by day, those of other types included: with
\* feedings or sleeps on six days and a diaper change alone on a seventh it
\* returns a result of sample size 7.
C15_CorrelationOverDaysOfEitherType ==
  Returned("calculateActivityCorrelation") =>
    /\ Cardinality(DaysOfEither(call.records, call.activityType1, call.activityType2)) < 7 =>
         ReturnValue = None
    /\ ReturnValue # None =>
         ReturnValue[1].sampleSize =
           Cardinality(DaysOfEither(call.records, call.activityType1, call.activityType2))

\* the results the two methods give for the arguments of the call
ZScoreOfCall == detectOutliersZScore(call.records, call.activityType, call.metric, FNum(3))

IqrOfCall == detectOutliersIQR(call.records, call.activityType, call.metric, Frac(3, 2))

\* a list of outliers holds one for the record
Flags(outliers, record) == \E i \in 1..Len(outliers) : outliers[i].record = record

\* ------------------------------------------------------------------------
\* C16.  detectAllOutliers returns the union of the z-score and the IQR
\* results, each flagged record once: every record either method flags is
\* in the list, no record is in it twice, every element is a result of one
\* of the methods, a record both methods flag is there with its z-score
\* result, and the absolute scores do not increase along the list.
\* The code keeps the first result of each record id: of two records that
\* share an id (importFile can produce them), one flagged by the z-score
\* method and the other by the IQR method only, the second is left out.
C16_AllOutliersUnion ==
  Returned("detectAllOutliers") =>
    /\ \A i \in 1..Len(ZScoreOfCall) : Flags(ReturnValue, ZScoreOfCall[i].record)
    /\ \A i \in 1..Len(IqrOfCall) : Flags(ReturnValue, IqrOfCall[i].record)
    /\ \A i \in 1..Len(ReturnValue) : \A j \in 1..Len(ReturnValue) :
         i # j => ReturnValue[i].record # ReturnValue[j].record
    /\ \A i \in 1..Len(ReturnValue) :
         IF Flags(ZScoreOfCall, ReturnValue[i].record)
           THEN \E j \in 1..Len(ZScoreOfCall) : ReturnValue[i] = ZScoreOfCall[j]
           ELSE \E j \in 1..Len(IqrOfCall) : ReturnValue[i] = IqrOfCall[j]
    /\ \A i \in 1..Len(ReturnValue) : \A j \in 1..Len(ReturnValue) :
         i < j => ~FLess(ReturnValue[i].score.square, ReturnValue[j].score.square)

\* the records of the type that carry the metric
Carrying(list, activityType, metric) ==
  {i \in 1..Len(list) :
     list[i].activityType = activityType /\ MetricOf(list[i], metric) # None}

\* ------------------------------------------------------------------------
\* C17.  detectOutliersZScore and detectOutliersIQR return an empty array
\* whenever fewer than 5 records of the activity type carry the metric,
\* whatever the values; records of other types and records without the
\* metric do not count.
C17_FewValuesNoOutliers ==
  (Returned("detectOutliersZScore") \/ Returned("detectOutliersIQR")) =>
    (Cardinality(Carrying(call.records, call.activityType, call.metric)) < 5 =>
       ReturnValue = << >>)

\* detectOutliersIQR has returned nothing for five records of which four
\* feedings carry a duration, one of them of 1 minute, far below the others
C17_Witness ==
  /\ Returned("detectOutliersIQR")
  /\ Len(call.records) = 5
  /\ Cardinality(Carrying(call.records, call.activityType, call.metric)) = 4
  /\ \E i \in 1..Len(call.records) :
       call.records[i].activityType = "feeding" /\ call.records[i].duration = Some(FNum(1))
  /\ ReturnValue = << >>

\* the least whole number of days, 1 or more, that covers the time from
\* earliest to latest
WholeDays(earliest, latest) ==
  CHOOSE n \in 1..(latest.day - earliest.day + 2) :
    /\ FGeq(FNum(n), DaysBetween(latest, earliest))
    /\ n = 1 \/ FLess(FNum(n - 1), DaysBetween(latest, earliest))

\* the result for records that are not empty: durationDays is
\* max(1, ceil((latest - earliest) in days)) and recordsPerDay is
\* totalRecords / durationDays
RangeCounted(overall) ==
  /\ overall.dateRange.earliest # None
  /\ overall.dateRange.latest # None
  /\ overall.dateRange.durationDays =
       WholeDays(overall.dateRange.earliest[1], overall.dateRange.latest[1])
  /\ overall.dateRange.durationDays >= 1
  /\ overall.recordsPerDay =
       FDiv(FNum(overall.totalRecords), FNum(overall.dateRange.durationDays))

\* ------------------------------------------------------------------------
\* C18.  For records that are not empty calculateOverallStatistics returns
\* durationDays = max(1, ceil((latest - earliest) in days)), which is at
\* least 1, and recordsPerDay = totalRecords / durationDays; for empty
\* records it returns totalRecords = 0, earliest = latest = null,
\* durationDays = 0 and recordsPerDay = 0.
C18_DurationDaysOfRange ==
  Returned("calculateOverallStatistics") =>
    /\ ReturnValue.totalRecords = Len(call.records)
    /\ IF call.records = << >>
         THEN /\ ReturnValue.dateRange.earliest = None
              /\ ReturnValue.dateRange.latest = None
              /\ ReturnValue.dateRange.durationDays = 0
              /\ ReturnValue.recordsPerDay = FNum(0)
         ELSE RangeCounted(ReturnValue)

\* calculateOverallStatistics has returned for two records two and a half
\* days apart: three days
C18_Witness ==
  /\ Returned("calculateOverallStatistics")
  /\ Len(call.records) = 2
  /\ DaysBetween(ReturnValue.dateRange.latest[1], ReturnValue.dateRange.earliest[1]) = Frac(5, 2)
  /\ ReturnValue.dateRange.durationDays = 3

\* C18 as stated: every result, that for empty records included, has
\* durationDays at least 1 and recordsPerDay = totalRecords / durationDays.
C18_DurationDaysAtLeastOne ==
  Returned("calculateOverallStatistics") =>
    /\ ReturnValue.dateRange.durationDays >= 1
    /\ ReturnValue.recordsPerDay =
         FDiv(FNum(ReturnValue.totalRecords), FNum(ReturnValue.dateRange.durationDays))
    /\ call.records # << >> => RangeCounted(ReturnValue)
    /\ call.records = << >> =>
         /\ ReturnValue.totalRecords = 0
         /\ ReturnValue.dateRange.earliest = None
         /\ ReturnValue.dateRange.latest = None

\* the date argument is given
Given(d) == d.type # "undefined"

\* the calendar day of a date argument, as a day number: the day a string
\* names, the local day of a Date
CalendarDay(d) ==
  IF d.type = "string" THEN DateFromKey(d.value).day
  ELSE DateOfTime(d.value.day, d.value.ms + timezoneOffset * 60000).day

\* 23:59:59.999 local time of a calendar day
LastMillisecond(day) == DateOfTime(day, 86399999 - timezoneOffset * 60000)

\* start <= t and t <= 23:59:59.999 of the calendar day of end
WithinRange(record, startDate, endDate) ==
  /\ Given(startDate) => ~TimeLess(record.timestamp, AsDate(startDate))
  /\ Given(endDate) => ~TimeLess(LastMillisecond(CalendarDay(endDate)), record.timestamp)

\* ------------------------------------------------------------------------
\* C19.  filterByDateRange(records, start, end) returns, in input order,
\* the records whose timestamp t has start <= t when start is given and
\* t <= 23:59:59.999 of the calendar day of end when end is given.
\* The code takes the end of the local day of the instant new Date(end): a
\* string '2025-01-15' is midnight UTC, which west of Greenwich is the
\* evening of 14 January, so the records of 15 January are left out.
C19_InclusiveDateRange ==
  Returned("filterByDateRange") =>
    ReturnValue =
      SelectSeq(call.records, LAMBDA record : WithinRange(record, call.startDate, call.endDate))

\* ------------------------------------------------------------------------
\* C20.  An analytics function leaves its arguments as they were: the
\* records, and the start and end dates, hold after the call the values
\* they held before it.
\* filterByDateRange calls end.setHours(23, 59, 59, 999) on the Date it was
\* given: a Date of 12:00 is 23:59:59.999 after the call.
C20_ArgumentsUnchanged == [][call' = call]_vars

\* ------------------------------------------------------------------------
\* C21. getUniqueActivityTypes returns every activity type that occurs among
\* the records exactly once and no other type, a type with strictly more
\* records stands before every type with fewer, and the list is empty for
\* an empty input.
RecordsOfType(type) == Cardinality({i \in 1..Len(call.records) : call.records[i].activityType = type})

C21_UniqueTypesByFrequency ==
  Returned("getUniqueActivityTypes") =>
    /\ {ReturnValue[k] : k \in 1..Len(ReturnValue)}
         = {call.records[i].activityType : i \in 1..Len(call.records)}
    /\ \A k, m \in 1..Len(ReturnValue) : k # m => ReturnValue[k] # ReturnValue[m]
    /\ \A k, m \in 1..Len(ReturnValue) :
         RecordsOfType(ReturnValue[k]) > RecordsOfType(ReturnValue[m]) => k < m
    /\ (call.records = << >> => ReturnValue = << >>)

\* a rarer type appears first among the records and is returned last
C21_Witness ==
  /\ Returned("getUniqueActivityTypes")
  /\ Len(ReturnValue) = 2
  /\ call.records[1].activityType = ReturnValue[2]
  /\ RecordsOfType(ReturnValue[1]) > RecordsOfType(ReturnValue[2])

\* ------------------------------------------------------------------------
\* C22. For a non-empty array calculateSummary reports as median the middle
\* element of the ascending sort (the mean of the two middle elements for an
\* even length) and as q1 and q3 the interpolated 25th and 75th percentiles
\* sorted[floor(i)] * (1 - w) + sorted[ceil(i)] * w with i = (p / 100) * (n - 1)
\* and w = i - floor(i); [10, 20, 30, 40] gives 25, 17.5 and 32.5; and
\* q1 <= median <= q3.
Ascending(values) ==
  CHOOSE s \in [1..Len(values) -> {values[i] : i \in 1..Len(values)}] :
    /\ \A i \in 1..(Len(values) - 1) : ~FLess(s[i + 1], s[i])
    /\ \A v \in {values[i] : i \in 1..Len(values)} :
         Cardinality({i \in 1..Len(values) : s[i] = v})
           = Cardinality({i \in 1..Len(values) : values[i] = v})

\* the R-7 percentile p of an ascending sequence, numerators over 100
R7(s, p) ==
  LET whole == (p * (Len(s) - 1)) \div 100
      rest == (p * (Len(s) - 1)) % 100
      next == IF rest = 0 THEN whole ELSE whole + 1
  IN FAdd(FMul(s[whole + 1], Frac(100 - rest, 100)), FMul(s[next + 1], Frac(rest, 100)))

MiddleOf(s) ==
  IF Len(s) % 2 = 1 THEN s[(Len(s) + 1) \div 2]
  ELSE FDiv(FAdd(s[Len(s) \div 2], s[(Len(s) \div 2) + 1]), FNum(2))

C22_MedianAndQuartiles ==
  (Returned("calculateSummary") /\ call.values # << >>) =>
    /\ ReturnValue # None
    /\ ReturnValue[1].median = MiddleOf(Ascending(call.values))
    /\ ReturnValue[1].q1 = R7(Ascending(call.values), 25)
    /\ ReturnValue[1].q3 = R7(Ascending(call.values), 75)
    /\ ~FLess(ReturnValue[1].median, ReturnValue[1].q1)
    /\ ~FLess(ReturnValue[1].q3, ReturnValue[1].median)
    /\ (call.values = << FNum(10), FNum(20), FNum(30), FNum(40) >> =>
          /\ ReturnValue[1].median = FNum(25)
          /\ ReturnValue[1].q1 = Frac(35, 2)
          /\ ReturnValue[1].q3 = Frac(65, 2))

\* an array that is not in order, whose quartiles lie between elements
C22_Witness ==
  /\ Returned("calculateSummary")
  /\ call.values = << FNum(40), FNum(10), FNum(30), FNum(20) >>
  /\ ReturnValue[1].q1 = Frac(35, 2)
  /\ ReturnValue[1].median = FNum(25)
  /\ ReturnValue[1].q3 = Frac(65, 2)

\* ------------------------------------------------------------------------
\* C23. formatPiyologParseErrors writes exactly the first min(n, 10) errors
\* of a list of n errors, in their order, each as "Line N: message" followed
\* by the quoted raw text when there is one; "...and K more errors" with
\* K = n - 10 is appended if and only if n > 10; the result is the empty
\* string for n = 0.
Rendering(err) ==
  IF err.rawText = << >>
    THEN << "Line " >> \o IntToStr(err.line) \o << ": " >> \o err.message
    ELSE << "Line " >> \o IntToStr(err.line) \o << ": " >> \o err.message
           \o << "\n", " ", " ", "\"" >> \o err.rawText \o << "\"" >>

\* the renderings of the first count errors, a blank line between two of them
RECURSIVE RenderingsUpTo(_, _)
RenderingsUpTo(errors, count) ==
  IF count = 0 THEN << >>
  ELSE IF count = 1 THEN Rendering(errors[1])
  ELSE RenderingsUpTo(errors, count - 1) \o << "\n", "\n" >> \o Rendering(errors[count])

MoreSuffix(count) == << "\n", "\n", "...and " >> \o IntToStr(count) \o << " more errors" >>

C23_FirstTenErrorsThenCount ==
  Returned("formatPiyologParseErrors") =>
    LET n == Len(call.errors)
    IN /\ (n = 0 => ReturnValue = << >>)
       /\ (n <= 10 => ReturnValue = RenderingsUpTo(call.errors, n))
       /\ (n > 10 => ReturnValue = RenderingsUpTo(call.errors, 10) \o MoreSuffix(n - 10))
       /\ (Includes(ReturnValue, << " more errors" >>) <=> n > 10)

\* twelve errors: ten are written, the eleventh is not, and 2 more are counted
C23_Witness ==
  /\ Returned("formatPiyologParseErrors")
  /\ Len(call.errors) = 12
  /\ call.errors[10].rawText # << >>
  /\ Includes(ReturnValue, << "Line ", "7", "0", ": " >>)
  /\ ~Includes(ReturnValue, << "Line ", "7", "7" >>)
  /\ Includes(ReturnValue, << "...and ", "2", " more errors" >>)

\* ------------------------------------------------------------------------
\* C24. The promise of sendWorkerMessage settles exactly once: with the
\* first terminal event of the Worker (a result, or an error: an error
\* response, a response of an unknown type or an error event) if the page
\* handles one before the timeout fires, and with the error "Analytics
\* computation timed out" otherwise; the timeout is the one set at the call
\* (30000 ms by default); the Worker is terminated in every terminal
\* outcome; a progress message neither settles the promise nor moves the
\* deadline; and the timeout does not fire once a terminal event was handled.
Settled == promise.state \in {"fulfilled", "rejected"}

Terminal(event) == event.type # "progress"

\* the first terminal event the page has handled
FirstTerminal ==
  worker.handled[CHOOSE i \in 1..Len(worker.handled) :
                   /\ Terminal(worker.handled[i])
                   /\ \A j \in 1..(i - 1) : ~Terminal(worker.handled[j])]

IsResult(event) ==
  event.type \in {"statistics_result", "trends_result", "correlations_result", "all_result"}

SettledByEvent ==
  /\ timer.state = "cleared"
  /\ \E i \in 1..Len(worker.handled) : Terminal(worker.handled[i])
  /\ IF IsResult(FirstTerminal)
       THEN promise = [state |-> "fulfilled", value |-> FirstTerminal]
       ELSE /\ promise.state = "rejected"
            /\ FirstTerminal.type = "error" => promise.value = FirstTerminal.error

SettledByTimeout ==
  /\ timer.state = "fired"
  /\ elapsed >= timer.deadline
  /\ promise = [state |-> "rejected", value |-> "Analytics computation timed out"]

C24_WorkerTimeoutProtocol ==
  /\ [](Settled => worker.terminated /\ (SettledByEvent \/ SettledByTimeout))
  /\ [](promise.state = "pending" => ~worker.terminated /\ timer.state = "armed")
  /\ [][Settled => promise' = promise]_vars
  /\ [][promise.state = "none" /\ promise'.state = "pending" =>
          timer'.deadline \in {elapsed + 30000, elapsed + ClockStep}]_vars
  /\ [][timer.state # "none" => timer'.deadline = timer.deadline]_vars
  /\ [][worker'.progress # worker.progress => promise' = promise /\ timer' = timer]_vars
  /\ [][timer.state = "cleared" => timer' = timer]_vars
  /\ (promise.state = "pending" ~> Settled)

\* a result is handled after a progress message and after time has passed
C24_Witness ==
  /\ promise.state = "fulfilled"
  /\ worker.progress > 0
  /\ elapsed >= ClockStep
  /\ timer.state = "cleared"
  /\ worker.terminated

\* ------------------------------------------------------------------------
\* C25. calculateDailyFrequency returns exactly one point per date key that
\* occurs among the records of the type, its value is the number of records
\* of the type with that key, the points are in strictly ascending date
\* order, no point has the value 0, and the values sum to the number of
\* records of the type.
Matching == {i \in 1..Len(call.records) : call.records[i].activityType = call.activityType}

MatchingOn(key) == {i \in Matching : DateKey(call.records[i].timestamp) = key}

C25_OnePointPerDateKey ==
  Returned("calculateDailyFrequency") =>
    /\ {DateKey(ReturnValue[k].date) : k \in 1..Len(ReturnValue)}
         = {DateKey(call.records[i].timestamp) : i \in Matching}
    /\ \A k \in 1..Len(ReturnValue) :
         /\ ReturnValue[k].value = FNum(Cardinality(MatchingOn(DateKey(ReturnValue[k].date))))
         /\ ReturnValue[k].value # FNum(0)
    /\ \A k, m \in 1..Len(ReturnValue) :
         k < m => TimeLess(ReturnValue[k].date, ReturnValue[m].date)
    /\ FSum([k \in 1..Len(ReturnValue) |-> ReturnValue[k].value]) = FNum(Cardinality(Matching))

\* the feedings of a later day come first in the list, a day between has a
\* record of another type only, and a day has two feedings
C25_Witness ==
  /\ Returned("calculateDailyFrequency")
  /\ Len(call.records) = 4
  /\ Len(ReturnValue) = 2
  /\ Cardinality(Matching) = 3
  /\ call.records[1].timestamp.day = FirstDay + 2
  /\ ReturnValue[1].date.day = FirstDay
  /\ ReturnValue[1].value = FNum(2)
  /\ \E i \in 1..4 : call.records[i].timestamp.day = FirstDay + 1

\* ------------------------------------------------------------------------
\* C26 (as stated): fetchWithRetry never retries after a 4xx response other
\* than 429 (a first response of that kind means one fetch call and a client
\* or auth error), returns success on the first ok response without a further
\* attempt, calls fetch at most retries + 1 times, and always resolves to a
\* success or error result instead of throwing.
IsOk(outcome) == outcome.kind = "response" /\ outcome.status \in 200..299

IsClientError(outcome) ==
  outcome.kind = "response" /\ outcome.status \in 400..499 /\ outcome.status # 429

\* the first attempt whose fetch call gives an ok response or a 4xx response
\* other than 429, 0 if there is none
FirstFinal ==
  IF \E i \in 1..Len(call.responses) : IsOk(call.responses[i]) \/ IsClientError(call.responses[i])
    THEN CHOOSE i \in 1..Len(call.responses) :
           /\ IsOk(call.responses[i]) \/ IsClientError(call.responses[i])
           /\ \A j \in 1..(i - 1) : ~(IsOk(call.responses[j]) \/ IsClientError(call.responses[j]))
    ELSE 0

C26_RetryPolicy ==
  Returned("fetchWithRetry") =>
    /\ ReturnValue.outcome = "resolved"
    /\ ReturnValue.fetched <= call.retries + 1
    /\ FirstFinal > 0 =>
         /\ ReturnValue.fetched = FirstFinal
         /\ IsOk(call.responses[FirstFinal]) => ReturnValue.value.success
         /\ IsClientError(call.responses[FirstFinal]) =>
              /\ ~ReturnValue.value.success
              /\ ReturnValue.value.error.type \in {"client", "auth"}
    /\ FirstFinal = 0 => ReturnValue.fetched = call.retries + 1

\* ------------------------------------------------------------------------
\* C27 (as stated): for a compute_all or compute_statistics request with a
\* non-empty array of well-formed records and a list of activity types, the
\* worker posts zero or more progress messages and then exactly one terminal
\* message, which is the matching result (all_result or statistics_result)
\* and not an error message.
MatchingResult ==
  IF call.data.type = "compute_all" THEN "all_result" ELSE "statistics_result"

C27_WorkerPostsMatchingResult ==
  (/\ Returned("onmessage")
   /\ call.data.type \in {"compute_all", "compute_statistics"}
   /\ call.data.records # << >>) =>
    /\ worker.outbox # << >>
    /\ \A k \in 1..(Len(worker.outbox) - 1) : worker.outbox[k].type = "progress"
    /\ worker.outbox[Len(worker.outbox)].type = MatchingResult

\* ------------------------------------------------------------------------
\* C28 (as stated): every result of detectOutliersIQR has a finite score
\* greater than 0 and the severity of that score (extreme above 3, moderate
\* above 2, mild otherwise), for every input with at least 5 values.
C28_IqrScoreFinite ==
  Returned("detectOutliersIQR") =>
    \A k \in 1..Len(ReturnValue) :
      /\ ReturnValue[k].score.square.k = "fin"
      /\ ReturnValue[k].score.sign = 1
      /\ ReturnValue[k].severity =
           IF FLess(FNum(9), ReturnValue[k].score.square) THEN "extreme"
           ELSE IF FLess(FNum(4), ReturnValue[k].score.square) THEN "moderate"
           ELSE "mild"

\* ------------------------------------------------------------------------
\* C29 (as stated): for the records of the text parser, two records get the
\* same key in groupRecordsByDate if and only if they were parsed under date
\* headers that name the same calendar date, at every time of day and in
\* every time zone, so that the number of groups is the number of header
\* dates that have events.
\* the lines that gave a record: the events after a date header
RecordLines ==
  InOrder({i \in 1..Len(lines) :
             /\ lines[i] \notin GroupingDateLines
             /\ \E j \in 1..(i - 1) : lines[j] \in GroupingDateLines})

\* the date header the a-th record was parsed under
HeaderOfRecord(a) ==
  lines[CHOOSE j \in 1..(RecordLines[a] - 1) :
          /\ lines[j] \in GroupingDateLines
          /\ \A m \in (j + 1)..(RecordLines[a] - 1) : lines[m] \notin GroupingDateLines]

\* the a-th record is in the g-th group
InGroup(a, g) ==
  \E m \in 1..Len(ReturnValue[g].records) : ReturnValue[g].records[m] = call.records[a]

C29_GroupsAgreeWithHeaders ==
  Returned("groupRecordsByDate") =>
    /\ Len(call.records) = Len(RecordLines)
    /\ \A a, b \in 1..Len(call.records) :
         (\E g \in 1..Len(ReturnValue) : InGroup(a, g) /\ InGroup(b, g))
           <=> HeaderOfRecord(a) = HeaderOfRecord(b)
    /\ Len(ReturnValue) = Cardinality({HeaderOfRecord(a) : a \in 1..Len(call.records)})

\* ------------------------------------------------------------------------
\* C30 (as stated): after any sequence of store actions filteredRecords is
\* records restricted by the current filters (activityType, startDate,
\* endDate), and importProgress.isImporting is false once an importFile
\* call has completed.
C30_FilteredRecordsFollowFilters ==
  /\ filteredRecords = Filtered(records, filters)
  /\ (imports # << >> /\ \A k \in 1..Len(imports) : imports[k].pc = "done")
       => ~importProgress.isImporting

====
